---- MODULE Spec2Model ----
(***************************************************************************)
(* HTMLReader: model of the reading session controller (Build/src/book.js, *)
(* second revision, lines 260-907), the UI message helpers                 *)
(* (Build/src/main.js), the library pipeline (Build/src/main.test.spec.js, *)
(* lines 406-1005) and the book metadata store (unnamed/part_002).         *)
(*                                                                         *)
(* Asynchronous functions are cut at the awaits that wait for a macrotask  *)
(* (file read, book.ready, locations.generate, timers); code between two   *)
(* such awaits is one action, because only microtasks run in between.      *)
(***************************************************************************)
EXTENDS Integers, Sequences, FiniteSets, TLC

(* ------------------------------ bounds -------------------------------- *)
\* number of concurrently running open operations
MaxOps == 2
\* number of ePub() constructions by open operations in one behaviour
MaxLoads == 2
\* number of locations book.locations.length() reports for a loaded book
NumLocs == 2

Ops == 1..MaxOps
Ids == 1..MaxLoads

\* File.lastModified takes the values 0..MaxStamp
MaxStamp == 1

\* the files of the library folder, in the order the scan enumerates them
ScanOrder == <<"lib/a.epub", "lib/b.epub">>
Paths == {ScanOrder[i] : i \in 1..Len(ScanOrder)}
Stamps == 0..MaxStamp
\* the file is not in the folder
Absent == 0 - 1
\* the path of the library entry the reading session is opened from
LibPath == "lib/a.epub"
\* Date.now(), abstracted to one truthy timestamp
Now == 1

(* --------------------------- UI (main.js) ----------------------------- *)
\* document.querySelector('.message.show'): loading, error or success banner
MessageShown(u) == u.loading \/ u.error \/ u.success

showLoading(u) == [u EXCEPT !.loading = TRUE, !.overlay = TRUE]

hideLoading(u) ==
  [u EXCEPT !.loading = FALSE,
            !.overlay = IF u.library \/ u.toc THEN u.overlay ELSE FALSE]

showError(u, text, retryAction) ==
  [u EXCEPT !.error = TRUE, !.errText = text, !.overlay = TRUE,
            !.retry = retryAction]

hideError(u) ==
  LET v == [u EXCEPT !.error = FALSE]
  IN [v EXCEPT !.overlay = IF v.library \/ v.toc \/ MessageShown(v)
                           THEN v.overlay ELSE FALSE,
               !.retry = "none"]

showSuccess(u) == [u EXCEPT !.success = TRUE]

hideSuccess(u) == [u EXCEPT !.success = FALSE]

\* force is "open" (true), "close" (false) or "toggle" (undefined)
toggleLibrary(u, force) ==
  LET f == IF force = "toggle"
           THEN (IF u.library THEN "close" ELSE "open") ELSE force
  IN IF f = "open" /\ ~u.library
       THEN [u EXCEPT !.library = TRUE, !.overlay = TRUE]
     ELSE IF f = "close" /\ u.library
       THEN [u EXCEPT !.library = FALSE,
                      !.overlay = IF u.toc \/ MessageShown(u)
                                  THEN u.overlay ELSE FALSE]
     ELSE u

closeToc(u) ==
  [u EXCEPT !.toc = FALSE,
            !.overlay = IF u.library \/ MessageShown(u)
                        THEN u.overlay ELSE FALSE]

toggleToc(u) ==
  IF u.toc THEN closeToc(u)
  ELSE [toggleLibrary(u, "close") EXCEPT !.toc = TRUE, !.overlay = TRUE]

(* error texts are sequences of the string pieces the code concatenates *)
Contains(text, piece) == \E i \in 1..Len(text) : text[i] = piece

FailedToLoad == "Failed to load EPUB: "

(* ---------------------- book metadata store --------------------------- *)
\* metadata objects are functions from field names to values; a field that
\* is absent from the DOMAIN is undefined in the JavaScript object
NumField(m, f) == IF f \in DOMAIN m /\ m[f] # 0 THEN m[f] ELSE 0
StrField(m, f) == IF f \in DOMAIN m /\ m[f] # "" THEN m[f] ELSE ""

\* the bookData object storeBookMetadata builds (value || default per field)
BookData(m) ==
  [path |-> m["path"],
   title |-> StrField(m, "title"),
   lastModified |-> NumField(m, "lastModified"),
   lastAccessed |-> IF NumField(m, "lastAccessed") # 0
                    THEN m["lastAccessed"] ELSE Now,
   progress |-> NumField(m, "progress"),
   currentCfi |-> NumField(m, "currentCfi")]

\* store.put(bookData) on the books table (keyPath "path")
storeBookMetadata(tbl, m) ==
  [p \in DOMAIN tbl \cup {m["path"]} |->
     IF p = m["path"] THEN BookData(m) ELSE tbl[p]]


(* ------------------------------ state --------------------------------- *)
VARIABLES
  book,            \* book.js: let book (0 is null, else the id of an ePub object)
  rendition,       \* book.js: let rendition (0 is null, else a rendition id)
  locations,       \* book.js: let locations (0 is null, else the book it came from)
  currentLocation, \* book.js: let currentLocation (0 initially, else a location)
  position,        \* location index the rendition in the slot displays
  nBooks,          \* number of ePub objects constructed by open operations
  nRends,          \* number of renditions created by book.renderTo
  rendLive,        \* rendition id -> "none" | "live" | "destroyed"
  viewer,          \* renditions whose DOM is inside the #viewer element
  openPath,        \* library path the book in `book` was opened from, or "none"
  controls,        \* prev/next/toc buttons enabled (disabled attribute false)
  handlers,        \* renditions with a debounced 'relocated' handler
  timer,           \* rendition id -> pending debounce argument (0: no timer)
  ui,              \* message banners, overlay, library and toc panels
  ops,             \* the open operations in flight
  booksStore,      \* the books table: path -> BookMetadataRecord
  rejections,      \* rejected `displayed` promises nothing has handled yet
  disk,            \* library folder: path -> lastModified of the file, or Absent
  lib,             \* the openLibrary pass in progress and what it has read
  grid,            \* library.js: currentLibraryFiles with each item's display
  parsed,          \* path -> ePub() calls by loadItemMetadata in this pass
  tree,            \* the directory structure under the library root handle
  scanned,         \* what scanDirectoryForEpubs returned (done: a scan has run)
  idb,             \* the database "htmlreader-db": version, stores, rows
  calls,           \* the calls of the indexedDB module's functions
  openQueue,       \* calls whose indexedDB.open request is pending, oldest first
  dbEvt,           \* what the last database step did, for the claims
  blocker,         \* another tab holds a connection to the database open
  host,            \* the browser: picker offered, stored handle's permission
  bookmarksStore,  \* the bookmarks table and its key generator
  cleanup,         \* the call of cleanupDatabase in progress
  errorTimers,     \* pending 10 s timers started by showError
  deb,             \* a function returned by debounce, with a clock
  evt              \* what the last step did (calls it made), for the claims

sessionVars == <<book, rendition, locations, nBooks, nRends, rendLive,
                 viewer, openPath, controls, handlers, rejections>>
navVars == <<currentLocation, position, timer>>
libVars == <<disk, lib, grid, parsed>>
scanVars == <<tree, scanned>>
dbVars == <<idb, calls, openQueue, dbEvt, blocker>>
otherVars == <<scanVars, dbVars, host, bookmarksStore, cleanup, errorTimers,
               deb>>
appVars == <<sessionVars, navVars, libVars, ui, ops, booksStore>>
vars == <<book, rendition, locations, currentLocation, position, nBooks, nRends,
          rendLive, viewer, openPath, controls, handlers, timer, ui,
          ops, booksStore, rejections, disk, lib, grid, parsed, tree,
          scanned, idb, calls, openQueue, dbEvt, blocker, host, bookmarksStore,
          cleanup, errorTimers, deb, evt>>

NoEvt == [act |-> "init", op |-> 0, errs |-> <<>>, succ |-> FALSE, loads |-> 0,
          reads |-> 0, epubs |-> 0, disp |-> <<>>, req |-> <<>>,
          cause |-> "none", solo |-> FALSE, file |-> <<>>]

\* dir: openLibrary's dirHandle; revoked: the store was read when the call
\* began and the handle it held has lost its permission
IdleLib == [pc |-> "idle", files |-> <<>>, cachedBooks |-> <<>>,
            entries |-> <<>>, unread |-> {}, same |-> {}, fetched |-> {},
            dir |-> [type |-> "null"], revoked |-> FALSE]

IdleOp == [pc |-> "idle", kind |-> "none", path |-> "none", bk |-> 0,
           solo |-> FALSE, pre |-> <<"Empty", 0>>, dr |-> FALSE]

InitUI == [loading |-> FALSE, error |-> FALSE, errText |-> <<>>,
           retry |-> "none", success |-> FALSE, overlay |-> FALSE,
           library |-> FALSE, toc |-> FALSE]

\* a record as loadItemMetadata caches it for the displayed library entry
CachedRecord ==
  BookData([f \in {"path", "title", "lastModified"} |->
              CASE f = "path" -> LibPath
                [] f = "title" -> "A"
                [] f = "lastModified" -> 1])

\* the grid item createLibraryItem and loadItemMetadata show for that entry
CachedItem == [path |-> LibPath, name |-> "a.epub", cached |-> TRUE,
               meta |-> <<CachedRecord>>, title |-> "A", st |-> "done",
               img |-> "coverUrl"]

(* the session is Ready: a book is loaded, its rendition is live and the    *)
(* navigation controls are enabled                                          *)
Live(r) == r # 0 /\ rendLive[r] = "live"
Ready == book # 0 /\ Live(rendition) /\ controls
Session == IF Ready THEN <<"Ready", rendition>> ELSE <<"Empty", 0>>

Running(p) == ops[p].pc # "idle"
OthersIdle(p) == \A q \in Ops \ {p} : ~Running(q)

\* ops after p starts an operation: p is solo iff nothing else runs, and
\* every operation already running is overlapped from now on
StartOp(p, kind, path) ==
  [q \in Ops |->
     IF q = p THEN [pc |-> "reading", kind |-> kind, path |-> path, bk |-> 0,
                    solo |-> OthersIdle(p), pre |-> Session, dr |-> FALSE]
     ELSE IF Running(q) THEN [ops[q] EXCEPT !.solo = FALSE] ELSE ops[q]]

InitCommon ==
  /\ book = 0 /\ rendition = 0 /\ locations = 0 /\ currentLocation = 0
  /\ position = 0 /\ nBooks = 0 /\ nRends = 0
  /\ rendLive = [r \in Ids |-> "none"]
  /\ viewer = {}
  /\ openPath = "none"
  /\ controls = FALSE
  /\ handlers = {}
  /\ timer = [r \in Ids |-> 0]
  /\ ops = [p \in Ops |-> IdleOp]
  /\ rejections = 0
  /\ lib = IdleLib
  /\ parsed = [f \in Paths |-> 0]
  /\ evt = NoEvt

\* no directory tree has been scanned
NoTree == [parent |-> << >>, dname |-> << >>, files |-> << >>,
           entries |-> << >>]
NoScan == [done |-> FALSE, files |-> << >>, threw |-> FALSE, visited |-> 0,
           depth |-> 0, fault |-> [dir |-> 0, at |-> 0]]

\* JavaScript values of the database layer: undefined, null, and objects
\* (records); rows are the stored objects themselves
UndefinedV == [type |-> "undefined"]
NullV == [type |-> "null"]
MaxCalls == 2
Calls == 1..MaxCalls
\* no database yet: indexedDB.open will create it
NoDB == [version |-> 0, stores |-> {}, handles |-> << >>, settings |-> << >>]
\* tx: how the transaction the call created ended
IdleCall == [pc |-> "idle", fn |-> "none", arg |-> UndefinedV, attempt |-> 0,
             value |-> UndefinedV, tx |-> "none"]
\* attempt: the attempt of executeTransaction the step belongs to; delay: the
\* backoff it starts (ms); tx: how the transaction it created ended
NoDbEvt == [act |-> "none", call |-> 0, attempt |-> 0, delay |-> 0,
            tx |-> "none", row |-> UndefinedV, opened |-> NoDB,
            upgraded |-> FALSE]
InitDBIdle ==
  /\ idb = NoDB
  /\ calls = [c \in Calls |-> IdleCall]
  /\ openQueue = << >>
  /\ dbEvt = NoDbEvt
  /\ blocker = FALSE
\* debounce has not been called; due: when the pending timer fires (0: no
\* timer), calls and fired: <<time, argument>> of the calls of the returned
\* function and of the invocations of func
NoDebounce == [wait |-> 0, now |-> 0, due |-> 0, arg |-> 0, calls |-> <<>>,
               fired |-> <<>>]

\* no bookmark was ever added, no cleanup is running, no timer is pending
IdleCleanup == [pc |-> "idle", orphaned |-> {}, removed |-> {},
                quiet |-> TRUE, failed |-> {}]
NoCleanup ==
  /\ bookmarksStore = [rows |-> << >>, last |-> 0] /\ cleanup = IdleCleanup
  /\ errorTimers = 0 /\ deb = NoDebounce

\* a browser with the File System Access API
ModernHost == [picker |-> TRUE, revoked |-> FALSE]
InitOther ==
  /\ tree = NoTree /\ scanned = NoScan /\ InitDBIdle /\ host = ModernHost
  /\ NoCleanup

InitBook ==
  /\ InitCommon
  /\ InitOther
  /\ disk = [f \in Paths |-> IF f = LibPath THEN 1 ELSE Absent]
  \* either the application has just started, or openLibrary has displayed
  \* the grid (library panel open) with the entry's metadata cached
  /\ \/ ui = InitUI /\ booksStore = << >> /\ grid = << >>
     \/ /\ ui = toggleLibrary(InitUI, "open")
        /\ booksStore = storeBookMetadata(<< >>, CachedRecord)
        /\ grid = <<CachedItem>>

(* ----------------------- openBook (book.js 298-356) ------------------- *)
\* file names are sequences of pieces; the last piece is the extension
FileNames == {<<"book", ".epub">>, <<"BOOK", ".EPUB">>, <<"image", ".png">>}
MimeTypes == {"application/epub+zip", "image/png", ""}
\* file sizes in MB
FileSizes == {1, 101}
SizeLimit == 100

\* String.prototype.toLowerCase, piece by piece
toLowerCase(name) ==
  [i \in DOMAIN name |->
     CASE name[i] = "BOOK" -> "book"
       [] name[i] = ".EPUB" -> ".epub"
       [] OTHER -> name[i]]
endsWith(name, suffix) == Len(name) > 0 /\ name[Len(name)] = suffix

\* a mime type check that accepts every declared type
isValidMimeType_declared(type) == type # ""

\* file.name.toLowerCase().endsWith('.epub')
isValidExtension(name) == endsWith(toLowerCase(name), ".epub")
\* file.type === 'application/epub+zip'
isValidMimeType(type) == type = "application/epub+zip"

openBook(p, name, type, size) ==
  /\ ~Running(p)
  /\ IF ~isValidExtension(name) /\ ~isValidMimeType(type)
     THEN /\ ui' = showError(ui,
                 <<"Please select a valid EPUB file (.epub extension required).">>,
                 "none")
          /\ evt' = [NoEvt EXCEPT !.act = "openBook_badType", !.op = p,
                       !.errs = <<ui'.errText>>, !.file = <<name, type, size>>]
          /\ UNCHANGED ops
     ELSE IF size > SizeLimit
     THEN /\ ui' = showError(ui,
                 <<"File is too large. Please select an EPUB file smaller than 100MB.">>,
                 "none")
          /\ evt' = [NoEvt EXCEPT !.act = "openBook_tooLarge", !.op = p,
                       !.errs = <<ui'.errText>>, !.file = <<name, type, size>>]
          /\ UNCHANGED ops
     ELSE /\ ui' = showLoading(ui)
          /\ ops' = StartOp(p, "file", "none")
          /\ evt' = [NoEvt EXCEPT !.act = "openBook_start", !.op = p,
                       !.loads = 1, !.reads = 1, !.solo = OthersIdle(p),
                       !.file = <<name, type, size>>]
  /\ UNCHANGED <<sessionVars, navVars, booksStore>>
  /\ UNCHANGED <<libVars, otherVars>>

\* reader.onerror
readerOnError(p) ==
  /\ ops[p].pc = "reading" /\ ops[p].kind = "file"
  /\ ui' = showError(hideLoading(ui),
             <<"Error reading file. The file may be corrupted or inaccessible.">>,
             "openBook")
  /\ ops' = [ops EXCEPT ![p] = IdleOp]
  /\ evt' = [NoEvt EXCEPT !.act = "open_failed", !.op = p, !.cause = "read",
               !.errs = <<ui'.errText>>, !.solo = ops[p].solo]
  /\ UNCHANGED <<sessionVars, navVars, booksStore>>
  /\ UNCHANGED <<libVars, otherVars>>

(* ----------------------- loadBook (book.js 391-445) ------------------- *)
\* the part of the module state loadBook and cleanupPreviousBook write
Slot == [book |-> book, rendition |-> rendition, rendLive |-> rendLive,
         viewer |-> viewer]

\* rendition.destroy(): releases the renderer and removes its DOM
destroy(s, r) ==
  [s EXCEPT !.rendLive = [@ EXCEPT ![r] = IF @ = "live" THEN "destroyed" ELSE @],
            !.viewer = @ \ {r}]

\* a cleanup that tears nothing down
cleanupPreviousBook_keep(s, destroyThrows) == s

\* cleanupPreviousBook (book.js 450-476); it leaves `rendition` pointing at
\* the destroyed rendition and does not touch the buttons. When the slot
\* holds an already destroyed rendition, rendition.destroy() may throw
\* (destroyThrows), and the catch block then skips the rest of the cleanup
cleanupPreviousBook(s, destroyThrows) ==
  IF s.rendition # 0 /\ s.rendLive[s.rendition] = "destroyed" /\ destroyThrows
  THEN s
  ELSE LET d == IF s.rendition # 0 THEN destroy(s, s.rendition) ELSE s
       IN [d EXCEPT !.book = 0, !.viewer = {}]

\* loadBook up to `await book.ready`: cleanup if (book && rendition)
loadBookCleanup(s, destroyThrows) ==
  IF s.book # 0 /\ s.rendition # 0
  THEN cleanupPreviousBook(s, destroyThrows) ELSE s

\* a caller whose catch block leaves the library panel closed
failUI_noReopen(u, kind) ==
  hideLoading(IF kind = "file"
              THEN showError(u, <<"Error loading book: ", FailedToLoad, "error.message">>, "openBook")
              ELSE showError(u, <<"Error opening book: ", FailedToLoad, "error.message">>,
                             "openBookFromEntry"))

\* a caller whose failure path has no finally block
failUI_noFinally(u, kind) ==
  IF kind = "file"
  THEN showError(u, <<"Error loading book: ", FailedToLoad, "error.message">>,
                 "openBook")
  ELSE showError(toggleLibrary(u, "open"),
                 <<"Error opening book: ", FailedToLoad, "error.message">>,
                 "openBookFromEntry")

\* the banner state after the catch and finally blocks of the caller
\* (openBook's reader.onload, 341-346; openBookFromEntry, 377-383)
failUI(u, kind) ==
  IF kind = "file"
  THEN hideLoading(showError(u,
         <<"Error loading book: ", FailedToLoad, "error.message">>, "openBook"))
  ELSE hideLoading(showError(toggleLibrary(u, "open"),
         <<"Error opening book: ", FailedToLoad, "error.message">>, "openBookFromEntry"))

\* the operation ends in its catch block; s is the slot it leaves behind
Fail(p, s, cause, nEpubs) ==
  /\ book' = s.book /\ rendition' = s.rendition
  /\ rendLive' = s.rendLive /\ viewer' = s.viewer
  /\ ui' = failUI(ui, ops[p].kind)
  /\ ops' = [ops EXCEPT ![p] = IdleOp]
  /\ evt' = [NoEvt EXCEPT !.act = "open_failed", !.op = p, !.cause = cause,
               !.errs = <<ui'.errText>>, !.solo = ops[p].solo,
               !.epubs = nEpubs]

\* loadBook from its first line to `await book.ready`
LoadBegin(p, throws) ==
  \E destroyThrows \in BOOLEAN :
  LET s == loadBookCleanup(Slot, destroyThrows) IN
  IF throws
  THEN \* ePub(bookData) throws: `book` keeps what the cleanup left
       /\ Fail(p, s, "invalid", 1)
       /\ UNCHANGED <<locations, nBooks, nRends, openPath, controls,
                      handlers, rejections>>
  ELSE /\ nBooks < MaxLoads
       /\ nBooks' = nBooks + 1
       /\ book' = nBooks + 1
       /\ openPath' = ops[p].path
       /\ rendition' = s.rendition
       /\ rendLive' = s.rendLive /\ viewer' = s.viewer
       /\ ops' = [ops EXCEPT ![p].pc = "ready", ![p].bk = nBooks + 1]
       /\ evt' = [NoEvt EXCEPT !.act = "load_begin", !.op = p, !.epubs = 1,
                    !.solo = ops[p].solo]
       /\ UNCHANGED <<ui, locations, nRends, controls, handlers,
                      rejections>>

\* reader.onload (book.js 335-347) up to loadBook's `await book.ready`
readerOnLoad(p, throws) ==
  /\ ops[p].pc = "reading" /\ ops[p].kind = "file"
  /\ LoadBegin(p, throws)
  /\ UNCHANGED <<navVars, booksStore>>
  /\ UNCHANGED <<libVars, otherVars>>

\* book.ready rejects: the data is not a valid archive
bookReadyRejects(p) ==
  /\ ops[p].pc = "ready"
  /\ Fail(p, Slot, "invalid", 0)
  /\ UNCHANGED <<locations, nBooks, nRends, openPath, controls,
                 handlers, rejections, navVars, booksStore>>
  /\ UNCHANGED <<libVars, otherVars>>

\* book.ready resolves: loadBook from renderTo to `await Promise.all(...)`.
\* display is "ok", "throws" (synchronously) or "rejects" (the promise
\* `displayed`, which loadBook never awaits)
bookReady(p, display) ==
  /\ ops[p].pc = "ready"
  /\ IF book = 0
     THEN \* book.renderTo on null: another load reset `book` meanwhile
          /\ Fail(p, Slot, "race", 0)
          /\ UNCHANGED <<locations, nBooks, nRends, openPath,
                         controls, handlers, position, rejections>>
     ELSE /\ nRends < MaxLoads
          /\ LET r == nRends + 1
                 s == [Slot EXCEPT !.rendition = r,
                                   !.rendLive = [@ EXCEPT ![r] = "live"],
                                   !.viewer = @ \cup {r}]
             IN /\ nRends' = r
                /\ position' = 0
                /\ IF display = "throws"
                   THEN /\ Fail(p, s, "display", 0)
                        /\ UNCHANGED <<handlers, rejections>>
                   ELSE /\ book' = s.book /\ rendition' = s.rendition
                        /\ rendLive' = s.rendLive /\ viewer' = s.viewer
                        \* setupEventHandlers: rendition.on('relocated', ...)
                        /\ handlers' = handlers \cup {r}
                        /\ rejections' = IF display = "rejects"
                                         THEN rejections + 1 ELSE rejections
                        /\ ops' = [ops EXCEPT ![p].pc = "setup",
                                              ![p].dr = (display = "rejects")]
                        /\ evt' = [NoEvt EXCEPT !.act = "load_rendered", !.op = p,
                                     !.solo = ops[p].solo]
                        /\ UNCHANGED ui
          /\ UNCHANGED <<locations, nBooks, openPath, controls>>
  /\ UNCHANGED <<currentLocation, timer, booksStore>>
  /\ UNCHANGED <<libVars, otherVars>>

\* enableBookControls (book.js 716-721)
enableBookControls(c) == TRUE

\* Promise.all of generateToc, generateLocations, setupBookMetadata and
\* setupEventHandlers settles; loadBook returns; the caller reports success
setupDone(p, generated) ==
  /\ ops[p].pc = "setup"
  \* generateLocations: locations = book.locations, inside its try block
  /\ locations' = IF generated /\ book # 0 THEN book ELSE locations
  /\ controls' = enableBookControls(controls)
  /\ ui' = hideLoading(showSuccess(ui))
  /\ ops' = [ops EXCEPT ![p] = IdleOp]
  /\ evt' = [NoEvt EXCEPT !.act = "open_done", !.op = p, !.succ = TRUE,
               !.solo = ops[p].solo,
               !.cause = IF ops[p].dr THEN "display" ELSE "none"]
  /\ UNCHANGED <<book, rendition, nBooks, nRends, rendLive, viewer,
                 openPath, handlers, rejections, navVars, booksStore>>
  /\ UNCHANGED <<libVars, otherVars>>

\* window 'unhandledrejection' listener (main.js 491-495)
unhandledRejection ==
  /\ rejections > 0
  /\ rejections' = rejections - 1
  /\ ui' = showError(ui, <<"An unexpected error occurred: ", "reason.message">>,
                     "none")
  /\ evt' = [NoEvt EXCEPT !.act = "unhandledrejection", !.errs = <<ui'.errText>>]
  /\ UNCHANGED <<book, rendition, locations, nBooks, nRends, rendLive,
                 viewer, openPath, controls, handlers, navVars, ops, booksStore>>
  /\ UNCHANGED <<libVars, otherVars>>

(* ------------- opening a library entry (main.test.spec.js 871-893) ---- *)
\* openBookFromLibraryItem up to openBookFromEntry's first await; outcome is
\* "noFile" (getFileFromEntry gave null), "storeFails" or "ok"
openBookFromLibraryItem(p, path, outcome) ==
  /\ ~Running(p)
  /\ ui.library
  /\ \E i \in 1..Len(grid) : grid[i].path = path
  /\ IF outcome = "ok"
     THEN /\ booksStore' = storeBookMetadata(booksStore,
               [f \in {"path", "lastAccessed"} |->
                  IF f = "path" THEN path ELSE Now])
          \* openBookFromEntry (book.js 362-365)
          /\ ui' = showLoading(toggleLibrary(ui, "close"))
          /\ ops' = StartOp(p, "entry", path)
          \* file.arrayBuffer() is called on whatever file the entry gave
          /\ \E size \in FileSizes :
               evt' = [NoEvt EXCEPT !.act = "openEntry_start", !.op = p,
                         !.loads = 1, !.reads = 1, !.solo = OthersIdle(p),
                         !.file = <<<<path>>, "", size>>]
     ELSE /\ ui' = showError(ui,
               <<"Could not open ", path, ": ", "error.message">>, "none")
          /\ evt' = [NoEvt EXCEPT !.act = "openItem_failed", !.op = p,
                       !.errs = <<ui'.errText>>]
          /\ UNCHANGED <<ops, booksStore>>
  /\ UNCHANGED <<sessionVars, navVars>>
  /\ UNCHANGED <<libVars, otherVars>>

\* openBookFromEntry: `await file.arrayBuffer()` settles, loadBook begins
entryRead(p, ok, throws) ==
  /\ ops[p].pc = "reading" /\ ops[p].kind = "entry"
  /\ IF ok
     THEN LoadBegin(p, throws)
     ELSE /\ ui' = hideLoading(showError(toggleLibrary(ui, "open"),
                     <<"Error opening book: ", "err.message">>,
                     "openBookFromEntry"))
          /\ ops' = [ops EXCEPT ![p] = IdleOp]
          /\ evt' = [NoEvt EXCEPT !.act = "open_failed", !.op = p,
                       !.cause = "read", !.errs = <<ui'.errText>>,
                       !.solo = ops[p].solo]
          /\ UNCHANGED sessionVars
  /\ UNCHANGED <<navVars, booksStore>>
  /\ UNCHANGED <<libVars, otherVars>>

(* -------------------- navigation (book.js 764-814) -------------------- *)
\* JavaScript values goToPage computes with
JsNum(n) == [t |-> "number", v |-> n]
JsNaN == [t |-> "NaN", v |-> 0]
JsNull == [t |-> "null", v |-> 0]
JsEvent == [t |-> "object", v |-> 0]

\* the truthiness `pageNumber || ...` tests
Truthy(x) == x.t = "object" \/ (x.t = "number" /\ x.v # 0)
\* x - 1: NaN for a non-number (an Event object converts to NaN)
MinusOne(x) == IF x.t = "number" THEN JsNum(x.v - 1)
               ELSE IF x.t = "null" THEN JsNum(0 - 1) ELSE JsNaN
\* a < b and a >= b are both false when an operand is NaN
Less(x, n) == x.t = "number" /\ x.v < n
GreaterEq(x, n) == x.t = "number" /\ x.v >= n

\* what the user can type in the page field, after parseInt(value, 10)
FieldValues == {JsNaN} \cup {JsNum(n) : n \in 0..(NumLocs + 1)}
\* the argument goToPage is called with: none (goToPage()), the change Event
\* (as the input's listener), or a page number (keyboard Home/End, callers)
PageArgs == {JsNull, JsEvent} \cup {JsNum(n) : n \in 0..(NumLocs + 1)}

\* the page the caller asks for: the argument if one was passed, else the field
Requested(arg, field) == IF arg.t = "number" THEN arg ELSE field

\* const targetPage = pageNumber || parseInt(currentPageInput.value, 10)
targetPage(arg, field) == IF Truthy(arg) THEN arg ELSE field

\* pageIndex < 0 || pageIndex >= book.locations.length()
outOfRange(pageIndex) == Less(pageIndex, 0) \/ GreaterEq(pageIndex, NumLocs)

\* display of the cfi of a valid index shows that location; for any other
\* index (NaN) or a destroyed rendition the renderer either rejects, which
\* the catch block reports, or (moved) shows its first location
goToPage(arg, field, moved) ==
  /\ IF book = 0 \/ locations = 0
     THEN /\ ui' = showError(ui,
               <<"Book locations not ready. Please wait for the book to fully load.">>,
               "none")
          /\ evt' = [NoEvt EXCEPT !.act = "goToPage", !.errs = <<ui'.errText>>,
                       !.req = <<Requested(arg, field)>>]
          /\ UNCHANGED position
     ELSE LET pageIndex == MinusOne(targetPage(arg, field)) IN
          IF outOfRange(pageIndex)
          THEN /\ ui' = showError(ui, <<"Page ", "is out of range.">>, "none")
               /\ evt' = [NoEvt EXCEPT !.act = "goToPage",
                            !.errs = <<ui'.errText>>,
                            !.req = <<Requested(arg, field)>>]
               /\ UNCHANGED position
          ELSE \* rendition.display(book.locations.cfiFromLocation(pageIndex))
               LET valid == pageIndex.t = "number" /\ Live(rendition)
                   shown == valid \/ (moved /\ Live(rendition))
               IN
               /\ position' = IF valid THEN pageIndex.v
                               ELSE IF shown THEN 0 ELSE position
               /\ ui' = IF shown THEN ui
                        ELSE showError(ui,
                               <<"Error navigating to specified page">>, "none")
               /\ evt' = [NoEvt EXCEPT !.act = "goToPage",
                            !.disp = <<pageIndex>>,
                            !.errs = IF shown THEN <<>> ELSE <<ui'.errText>>,
                            !.req = <<Requested(arg, field)>>]
  /\ UNCHANGED <<sessionVars, currentLocation, timer, ops, booksStore>>
  /\ UNCHANGED <<libVars, otherVars>>

\* prevPage / nextPage: dir is -1 or 1
turnPage(dir) ==
  /\ IF rendition = 0
     THEN UNCHANGED <<position, ui>>
     ELSE IF Live(rendition)
     THEN /\ position' = IF position + dir \in 0..(NumLocs - 1)
                         THEN position + dir ELSE position
          /\ UNCHANGED ui
     ELSE /\ ui' = showError(ui, <<"Error navigating to page">>, "none")
          /\ UNCHANGED position
  /\ evt' = [NoEvt EXCEPT !.act = "turnPage",
               !.errs = IF ui' # ui THEN <<ui'.errText>> ELSE <<>>,
               !.disp = IF rendition # 0 THEN <<JsNum(dir)>> ELSE <<>>]
  /\ UNCHANGED <<sessionVars, currentLocation, timer, ops, booksStore>>
  /\ UNCHANGED <<libVars, otherVars>>

(* ---------- relocation handling (book.js 535-604, main.js 190-200) ----- *)
\* the renderer emits 'relocated' with location loc: the debounced handler
\* restarts its timer with the new argument
relocated(r, loc) ==
  /\ r \in handlers /\ Live(r)
  /\ timer' = [timer EXCEPT ![r] = loc]
  /\ evt' = [NoEvt EXCEPT !.act = "relocated"]
  /\ UNCHANGED <<sessionVars, currentLocation, position, ui, ops, booksStore>>
  /\ UNCHANGED <<libVars, otherVars>>

\* the books table after the debounced handler ran for location loc:
\* updatePageDisplay and updateReadingProgress (book.js) write the DOM only
storeAfterRelocation(tbl, path, loc) == tbl

\* 150 ms after the last notification the handler runs
debounceFire(r) ==
  /\ timer[r] # 0
  /\ timer' = [timer EXCEPT ![r] = 0]
  /\ currentLocation' = timer[r]
  /\ booksStore' = storeAfterRelocation(booksStore,
                      IF book # 0 THEN openPath ELSE "none", timer[r])
  \* updatePageDisplay reads book.locations outside its try block
  /\ ui' = IF locations # 0 /\ book = 0
           THEN showError(ui, <<"An unexpected error occurred: ",
                                "reason.message">>, "none")
           ELSE ui
  /\ evt' = [NoEvt EXCEPT !.act = "debounceFire",
               !.errs = IF locations # 0 /\ book = 0
                        THEN <<ui'.errText>> ELSE <<>>]
  /\ UNCHANGED <<sessionVars, position, ops>>
  /\ UNCHANGED <<libVars, otherVars>>

(* ------------------------- user interface ----------------------------- *)
\* close-error button
closeError ==
  /\ ui.error
  /\ ui' = hideError(ui)
  /\ evt' = [NoEvt EXCEPT !.act = "ui"]
  /\ UNCHANGED <<sessionVars, navVars, ops, booksStore>>
  /\ UNCHANGED <<libVars, otherVars>>

\* close-success button, or the 3 s timer of showSuccess
closeSuccess ==
  /\ ui.success
  /\ ui' = hideSuccess(ui)
  /\ evt' = [NoEvt EXCEPT !.act = "ui"]
  /\ UNCHANGED <<sessionVars, navVars, ops, booksStore>>
  /\ UNCHANGED <<libVars, otherVars>>

\* toc-button (only when enabled) or close-toc button
clickToc ==
  /\ controls \/ ui.toc
  /\ ui' = toggleToc(ui)
  /\ evt' = [NoEvt EXCEPT !.act = "ui"]
  /\ UNCHANGED <<sessionVars, navVars, ops, booksStore>>
  /\ UNCHANGED <<libVars, otherVars>>

\* close-library button
closeLibrary ==
  /\ ui.library
  /\ ui' = toggleLibrary(ui, "close")
  /\ evt' = [NoEvt EXCEPT !.act = "ui"]
  /\ UNCHANGED <<sessionVars, navVars, ops, booksStore>>
  /\ UNCHANGED <<libVars, otherVars>>

\* handleWindowFocus -> updateUIState (main.js 334-349)
updateUIState ==
  /\ controls' = (viewer # {})
  /\ evt' = [NoEvt EXCEPT !.act = "ui"]
  /\ UNCHANGED <<book, rendition, locations, nBooks, nRends, rendLive,
                 viewer, openPath, handlers, rejections, navVars, ui, ops,
                 booksStore>>
  /\ UNCHANGED <<libVars, otherVars>>

(* ------------- the library pass (main.test.spec.js 424-844) ---------- *)
NameOf(path) == IF path = "lib/a.epub" THEN "a.epub" ELSE "b.epub"
\* metadata.title as the archive parser reports it
TitleOf(path) == IF path = "lib/a.epub" THEN "A" ELSE "B"

\* scanDirectoryForEpubs (507-539): one descriptor per file in the folder
scanDirectoryForEpubs(d) ==
  LET found == SelectSeq(ScanOrder, LAMBDA f : d[f] # Absent)
  IN [i \in 1..Len(found) |-> [path |-> found[i], name |-> NameOf(found[i])]]

\* a merge that evicts the records of files the scan did not find
booksAfterMerge_evict(tbl, files) ==
  [f \in {g \in DOMAIN tbl : \E i \in 1..Len(files) : files[i].path = g} |->
     tbl[f]]

\* the books table after mergeFilesWithMetadata (547-582), which calls no
\* store function
booksAfterMerge(tbl, files) == tbl

\* mergeFilesWithMetadata (547-582); d gives each file's lastModified when
\* handle.getFile() is called, unread the files for which that call throws
mergeFilesWithMetadata(files, cachedBooks, d, unread) ==
  [i \in 1..Len(files) |->
     LET file == files[i]
         hasCached == file.path \in DOMAIN cachedBooks
     IN IF /\ hasCached
           /\ cachedBooks[file.path].lastModified # 0
           /\ file.path \notin unread
           /\ d[file.path] # Absent
           /\ d[file.path] = cachedBooks[file.path].lastModified
        THEN [path |-> file.path, name |-> file.name, cached |-> TRUE,
              meta |-> <<cachedBooks[file.path]>>]
        ELSE [path |-> file.path, name |-> file.name, cached |-> FALSE,
              meta |-> <<>>]]

\* createLibraryItem (720-772) with the synchronous part of
\* loadItemMetadata (784-794): the item shows the cached title, or the file
\* name while its metadata fetch is pending
createLibraryItem(entry) ==
  IF entry.cached /\ entry.meta[1].title # ""
  THEN [path |-> entry.path, name |-> entry.name, cached |-> entry.cached,
        meta |-> entry.meta, title |-> entry.meta[1].title, st |-> "done",
        img |-> "coverUrl"]
  ELSE [path |-> entry.path, name |-> entry.name, cached |-> entry.cached,
        meta |-> entry.meta, title |-> entry.name, st |-> "pending",
        img |-> "placeholder"]

\* displayLibraryGrid (609-655)
displayLibraryGrid(entries) ==
  [i \in 1..Len(entries) |-> createLibraryItem(entries[i])]

Settled == \A i \in 1..Len(grid) : grid[i].st # "pending"

\* the live file of a path has the lastModified of its record in tbl
SameStamp(tbl, d, unread, path) ==
  /\ path \in DOMAIN tbl /\ d[path] # Absent /\ path \notin unread
  /\ tbl[path].lastModified = d[path]

\* openLibrary (424-478) with a stored handle whose permission is granted,
\* up to the result of scanDirectoryForEpubs
openLibrary_scan ==
  /\ lib.pc = "idle" /\ Settled
  /\ \A p \in Ops : ~Running(p)
  /\ lib' = [IdleLib EXCEPT !.pc = "scanned",
                            !.files = scanDirectoryForEpubs(disk),
                            !.fetched = lib.fetched]
  /\ parsed' = [f \in Paths |-> 0]
  /\ ui' = showLoading(ui)
  /\ evt' = [NoEvt EXCEPT !.act = "scan", !.loads = 1]
  /\ UNCHANGED <<sessionVars, navVars, ops, booksStore, disk, grid>>
  /\ UNCHANGED otherVars

\* const cachedBooks = await getStoredBooks() (482)
openLibrary_getStoredBooks ==
  /\ lib.pc = "scanned"
  /\ lib' = [lib EXCEPT !.pc = "loaded", !.cachedBooks = booksStore]
  /\ evt' = [NoEvt EXCEPT !.act = "getStoredBooks"]
  /\ UNCHANGED <<sessionVars, navVars, ops, booksStore, disk, grid, parsed,
                 ui>>
  /\ UNCHANGED otherVars

\* await mergeFilesWithMetadata(files, cachedBooks) (483)
openLibrary_merge(unread) ==
  /\ lib.pc = "loaded"
  /\ lib' = [lib EXCEPT
       !.pc = "merged",
       !.entries = mergeFilesWithMetadata(lib.files, lib.cachedBooks, disk,
                                          unread),
       !.unread = unread,
       !.same = {f \in Paths : SameStamp(lib.cachedBooks, disk, unread, f)}]
  /\ booksStore' = booksAfterMerge(booksStore, lib.files)
  /\ evt' = [NoEvt EXCEPT !.act = "merge"]
  /\ UNCHANGED <<sessionVars, navVars, ops, disk, grid, parsed, ui>>
  /\ UNCHANGED otherVars

\* displayLibraryGrid, toggleLibrary(true) and the finally block (488-497)
openLibrary_display ==
  /\ lib.pc = "merged"
  /\ grid' = displayLibraryGrid(lib.entries)
  /\ lib' = [lib EXCEPT !.pc = "idle"]
  /\ ui' = hideLoading(toggleLibrary(ui, "open"))
  /\ evt' = [NoEvt EXCEPT !.act = "display"]
  /\ UNCHANGED <<sessionVars, navVars, ops, booksStore, disk, parsed>>
  /\ UNCHANGED otherVars

\* a fetch that puts up the title only when the cover was found too
fetchedTitle_withCover(item, outcome) ==
  IF outcome = "ok" THEN TitleOf(item.path) ELSE item.name

\* titleDiv.textContent after the fetch (805-808): metadata.title once the
\* archive has been parsed
fetchedTitle(item, outcome) ==
  IF outcome \in {"ok", "coverFails"} THEN TitleOf(item.path) ELSE item.name

\* the asynchronous part of loadItemMetadata (796-843) for grid item i;
\* outcome is "noFile" (getFile throws, getFileFromEntry gives null),
\* "readFails" (file.arrayBuffer throws), "parseFails" (ePub or book.ready
\* or loaded.metadata throws), "coverFails" (tempBook.coverUrl throws) or
\* "ok"; st is "noFile" when the fetch ended before the archive was parsed
loadItemMetadata(i, outcome) ==
  /\ i \in 1..Len(grid) /\ grid[i].st = "pending"
  /\ disk[grid[i].path] = Absent => outcome = "noFile"
  /\ LET path == grid[i].path
         unparsed == outcome \in {"noFile", "readFails"}
     IN
     /\ parsed' = IF unparsed THEN parsed
                  ELSE [parsed EXCEPT ![path] = @ + 1]
     /\ IF outcome \in {"ok", "coverFails"}
        THEN /\ grid' = [grid EXCEPT
                  ![i].st = "done",
                  ![i].title = fetchedTitle(grid[i], outcome),
                  ![i].img = IF outcome = "ok" THEN "coverUrl"
                             ELSE "placeholder"]
             /\ booksStore' = storeBookMetadata(booksStore,
                  [f \in {"path", "title", "lastModified"} |->
                     CASE f = "path" -> path
                       [] f = "title" -> TitleOf(path)
                       [] f = "lastModified" -> disk[path]])
             /\ lib' = [lib EXCEPT !.fetched = @ \cup {path}]
        ELSE /\ grid' = [grid EXCEPT ![i].st = IF unparsed
                                                 THEN "noFile" ELSE "done"]
             /\ UNCHANGED <<booksStore, lib>>
     /\ evt' = [NoEvt EXCEPT !.act = "fetch", !.file = <<path, outcome>>,
                  !.epubs = IF unparsed THEN 0 ELSE 1]
  /\ UNCHANGED <<sessionVars, navVars, ops, disk, ui>>
  /\ UNCHANGED otherVars

\* a file of the folder is written, created or deleted outside the program
fileChanged(path, v) ==
  /\ v # disk[path]
  /\ disk' = [disk EXCEPT ![path] = v]
  /\ lib' = [lib EXCEPT !.fetched = @ \ {path}]
  /\ evt' = [NoEvt EXCEPT !.act = "disk"]
  /\ UNCHANGED <<sessionVars, navVars, ops, booksStore, grid, parsed, ui>>
  /\ UNCHANGED otherVars

(* ------------------ the specifications of the reading session -------- *)
Outcomes == {"ok", "throws", "rejects"}
ItemOutcomes == {"ok", "noFile", "storeFails"}

\* the slot a new operation takes: the lowest idle one
FreeOp(p) == ~Running(p) /\ \A q \in Ops : q < p => Running(q)

\* one open operation at a time, with every kind of input file
NextSeq ==
  \/ \E n \in FileNames, t \in MimeTypes, z \in FileSizes :
       OthersIdle(1) /\ openBook(1, n, t, z)
  \/ readerOnError(1)
  \/ \E throws \in BOOLEAN : readerOnLoad(1, throws)
  \/ bookReadyRejects(1)
  \/ \E d \in Outcomes : bookReady(1, d)
  \/ \E g \in BOOLEAN : setupDone(1, g)
  \/ unhandledRejection
  \/ \E o \in ItemOutcomes : OthersIdle(1) /\ openBookFromLibraryItem(1, LibPath, o)
  \/ \E ok \in BOOLEAN, throws \in BOOLEAN : entryRead(1, ok, throws)
  \/ updateUIState
  \/ closeError

SpecSeq == InitBook /\ [][NextSeq]_vars

\* open operations of accepted files in every interleaving of their steps
NextOpen ==
  \/ \E p \in Ops : FreeOp(p) /\ openBook(p, <<"book", ".epub">>, "application/epub+zip", 1)
  \/ \E p \in Ops : readerOnError(p)
  \/ \E p \in Ops, throws \in BOOLEAN : readerOnLoad(p, throws)
  \/ \E p \in Ops : bookReadyRejects(p)
  \/ \E p \in Ops, d \in Outcomes : bookReady(p, d)
  \/ \E p \in Ops, g \in BOOLEAN : setupDone(p, g)
  \/ unhandledRejection
  \/ \E p \in Ops : FreeOp(p) /\ openBookFromLibraryItem(p, LibPath, "ok")
  \/ \E p \in Ops, ok \in BOOLEAN, throws \in BOOLEAN : entryRead(p, ok, throws)
  \/ updateUIState

SpecOpen == InitBook /\ [][NextOpen]_vars

\* one open operation at a time, then navigation and relocation
NextNav ==
  \/ OthersIdle(1) /\ openBookFromLibraryItem(1, LibPath, "ok")
  \/ \E throws \in BOOLEAN : entryRead(1, TRUE, throws)
  \/ bookReadyRejects(1)
  \/ bookReady(1, "ok")
  \/ \E g \in BOOLEAN : setupDone(1, g)
  \/ \E a \in PageArgs, f \in FieldValues, m \in BOOLEAN : goToPage(a, f, m)
  \/ \E dir \in {0 - 1, 1} : turnPage(dir)
  \/ \E r \in Ids, loc \in 1..NumLocs : relocated(r, loc)
  \/ \E r \in Ids : debounceFire(r)
  \/ closeError
  \/ closeSuccess
  \/ clickToc
  \/ closeLibrary

SpecNav == InitBook /\ [][NextNav]_vars

(* -------------------- the specification of the library --------------- *)
FetchOutcomes == {"noFile", "parseFails", "ok"}
\* every way the fetch of one entry can end
AllFetchOutcomes == FetchOutcomes \cup {"readFails", "coverFails"}

InitLib ==
  /\ InitCommon
  /\ InitOther
  /\ disk \in [Paths -> Stamps \cup {Absent}]
  /\ ui = InitUI /\ booksStore = << >> /\ grid = << >>

\* library passes, metadata fetches and file changes
NextLib ==
  \/ openLibrary_scan
  \/ openLibrary_getStoredBooks
  \/ \E unread \in SUBSET Paths : openLibrary_merge(unread)
  \/ openLibrary_display
  \/ \E i \in 1..Len(ScanOrder), o \in FetchOutcomes : loadItemMetadata(i, o)
  \/ \E f \in Paths, v \in Stamps \cup {Absent} : fileChanged(f, v)

SpecLib == InitLib /\ [][NextLib]_vars

(* ======================= properties of the session ==================== *)
ValidationError ==
  <<"Please select a valid EPUB file (.epub extension required).">>
OpenBookActs == {"openBook_badType", "openBook_tooLarge", "openBook_start"}
LiveInViewer == {r \in viewer : rendLive[r] = "live"}

\* the file has a non-.epub extension (compared without regard to case, as
\* the library scan does) and a declared type other than the EPUB type
C1_Rejected(f) ==
  ~endsWith(toLowerCase(f[1]), ".epub") /\ f[2] # "application/epub+zip"

\* C1: openBook on a file with a non-.epub name and a non-EPUB declared type
\* shows exactly one validation error, starts no read (no showLoading, no
\* FileReader, no ePub construction) and leaves book, rendition and control
\* enablement unchanged; an accepted file enters Loading, and when its bytes
\* parse the operation ends with the session Ready and the controls enabled.
C1_OpenBook ==
  [][ /\ (evt'.act \in OpenBookActs /\ C1_Rejected(evt'.file)
            => /\ evt'.errs = <<ValidationError>>
               /\ ui'.error /\ ui'.errText = ValidationError
               /\ evt'.loads = 0 /\ evt'.reads = 0 /\ evt'.epubs = 0
               /\ ~ui'.loading
               /\ book' = book /\ rendition' = rendition
               /\ rendLive' = rendLive /\ viewer' = viewer
               /\ controls' = controls /\ ops' = ops)
      /\ (evt'.act = "openBook_start"
            => /\ ui'.loading /\ evt'.errs = <<>>
               /\ ops'[evt'.op].pc = "reading"
               /\ ops'[evt'.op].pre = Session)
      /\ (evt'.act = "open_done" /\ ops[evt'.op].kind = "file"
            => /\ ops[evt'.op].pc = "setup"
               /\ Ready' /\ controls' /\ ~ui'.loading
               /\ rendition' = nRends /\ book' = ops[evt'.op].bk)
    ]_vars

\* a non-EPUB file is rejected while a book is Ready
C1_Witness ==
  /\ evt.act = "openBook_badType" /\ Ready
  /\ evt.file = << <<"image", ".png">>, "image/png", 1 >>

C3_SingleRendition ==
  [][ /\ Cardinality(LiveInViewer') <= 1
      /\ (rendition' # rendition
            => rendition = 0 \/ rendLive[rendition] = "destroyed")
      /\ (evt'.act = "load_begin"
            => /\ ~Live(rendition)'
               /\ (ops[evt'.op].pre[1] = "Ready" => ~controls'))
    ]_vars

\* the page the caller asked for is a number in [1, N]
C4_Valid(n) == n.t = "number" /\ n.v \in 1..NumLocs

\* C4: with a book Ready and N pages, goToPage for a requested page n (the
\* argument, or the page field when there is none or when it runs as the
\* field's change listener) does not call display and leaves the position
\* unchanged if n is non-numeric or outside [1, N], and calls display
\* exactly once with cfiFromLocation(n - 1) otherwise.
C4_GoToPage ==
  [][ evt'.act = "goToPage" /\ Ready /\ locations = book
        => LET n == evt'.req[1] IN
           IF C4_Valid(n)
           THEN evt'.disp = <<JsNum(n.v - 1)>>
           ELSE evt'.disp = <<>> /\ position' = position
    ]_vars

\* C5: while a book opened from the library is Ready, once the debounced
\* handler has run for the latest notified location, the book's persisted
\* record has the currentCfi and progress of that location.
C5_ProgressPersisted ==
  evt.act = "debounceFire" /\ Ready /\ openPath = LibPath
    => /\ LibPath \in DOMAIN booksStore
       /\ booksStore[LibPath].currentCfi = currentLocation
       /\ booksStore[LibPath].progress = currentLocation

\* C6: when the data is not a valid archive, the file read fails, or the
\* initial display call fails, the open operation ends with a visible error
\* that carries a retry action, reports no success, and does not leave the
\* session Ready with controls enabled for that book.
C6_FailureReported ==
  evt.act \in {"open_failed", "open_done"}
    /\ evt.cause \in {"invalid", "read", "display"}
    => /\ ui.error /\ ui.retry # "none"
       /\ Len(evt.errs) = 1
       /\ ~evt.succ /\ ~ui.success
       /\ ~Ready

(* ======================= properties of the library ==================== *)
\* C7: mergeFilesWithMetadata gives one entry per file in input order, and
\* an entry is a cache hit with the cached fields attached if and only if
\* cachedBooks has a record of the same path whose lastModified equals the
\* live file's lastModified, for every timestamp including 0; every other
\* entry is a miss with no cached fields.
C7_HitIffSameStamp ==
  evt.act = "merge"
    => /\ Len(lib.entries) = Len(lib.files)
       /\ \A i \in 1..Len(lib.entries) :
            LET e == lib.entries[i] IN
            /\ e.path = lib.files[i].path
            /\ e.cached <=> SameStamp(lib.cachedBooks, disk, lib.unread, e.path)
            /\ e.cached => e.meta = <<lib.cachedBooks[e.path]>>
            /\ ~e.cached => e.meta = <<>>

\* the scan, merge and display of a pass and all its metadata fetches are over
PassOver == lib.pc = "idle" /\ Settled /\ Len(grid) > 0

\* C8: in one scan, merge and display pass the archive parser is never
\* invoked for a file whose cached record has the live file's lastModified
\* (the cached title is shown), and exactly once for every other file
\* (that the fetch could read).
C8_ParserOnlyOnMiss ==
  PassOver
    => \A i \in 1..Len(grid) :
         LET path == grid[i].path IN
         IF path \in lib.same
         THEN parsed[path] = 0 /\ grid[i].title = lib.cachedBooks[path].title
         ELSE grid[i].st # "noFile" => parsed[path] = 1

\* C9: mergeFilesWithMetadata writes nothing to the books table: the set of
\* records and every field of each are the same after the merge as before,
\* records of paths absent from the scan included.
C9_MergeReadOnly ==
  [][ evt'.act = "merge" => booksStore' = booksStore ]_vars

\* a merge has run while the table holds a record of a file that the scan
\* did not find, and another file was a cache hit
C9_Witness ==
  /\ evt.act = "merge"
  /\ \E f \in DOMAIN booksStore :
       \A i \in 1..Len(lib.files) : lib.files[i].path # f
  /\ \E i \in 1..Len(lib.entries) : lib.entries[i].cached

\* C10: a successful metadata fetch of a cache-miss entry writes a record of
\* that path with the live file's lastModified, so that the merge of the
\* next pass, the file being unmodified, marks the entry a cache hit.
C10_FetchedIsHitNextPass ==
  /\ evt.act = "fetch" /\ evt.file[2] = "ok"
       => /\ evt.file[1] \in DOMAIN booksStore
          /\ booksStore[evt.file[1]].lastModified = disk[evt.file[1]]
  /\ evt.act = "merge"
       => \A i \in 1..Len(lib.entries) :
            LET e == lib.entries[i] IN
            e.path \in lib.fetched /\ e.path \notin lib.unread => e.cached

(* ============ scanDirectoryForEpubs over a directory tree ==============
   library.js v2 (main.test.spec.js 507-539).  A tree has directories
   1..MaxDirs, directory 1 being the root handle; a directory yields its
   files first and then its subdirectories.                              *)
MaxDirs == 5
Dirs == 1..MaxDirs
Root == 1
\* the budget of the directory check and the depth of the comment above it
DirBudget == 50
MaxDepth == 3

\* names are sequences of pieces, as file names are
RootName == <<"lib">>
UniqueName(d) == <<"sub", ToString(d)>>
DirNames(d) == {UniqueName(d), <<"x">>, <<".", "git">>}
EpubA == <<"a", ".epub">>
RootFiles == <<EpubA, <<"notes", ".txt">>, <<"b", ".EPUB">>>>
\* String.prototype.startsWith
startsWith(name, prefix) == Len(name) > 0 /\ name[1] = prefix

Children(t, d) == {c \in Dirs : t.parent[c] = d}
\* the children of a directory in ascending order
RECURSIVE SortedDirs(_)
SortedDirs(S) ==
  IF S = {} THEN << >>
  ELSE LET m == CHOOSE x \in S : \A y \in S : x <= y
       IN <<m>> \o SortedDirs(S \ {m})

\* what dirHandle.entries() yields: [name, handle] pairs; a file handle is
\* identified by its directory and position, a directory handle by its
\* directory
EntriesOf(t, d) ==
  [i \in 1..Len(t.files[d]) |->
     [kind |-> "file", name |-> t.files[d][i], handle |-> <<d, i>>]]
  \o [i \in 1..Cardinality(Children(t, d)) |->
        [kind |-> "directory", name |-> t.dname[SortedDirs(Children(t, d))[i]],
         handle |-> <<SortedDirs(Children(t, d))[i], 0>>]]

\* dirHandle.entries()
entries(t, d) == t.entries[d]

\* trees a file system can hold: no two subdirectories of one directory
\* share a name; the root holds the three files, every other directory one
Shapes ==
  {t \in [parent : {f \in [Dirs -> 0..MaxDirs] :
                       /\ f[Root] = 0
                       /\ \A d \in Dirs \ {Root} :
                            f[d] \in {Root, d - 1} \ {0}},
          dname : {n \in [Dirs -> UNION {DirNames(d) : d \in Dirs}
                                    \cup {RootName}] :
                     /\ n[Root] = RootName
                     /\ \A d \in Dirs \ {Root} : n[d] \in DirNames(d)},
          files : {[d \in Dirs |-> IF d = Root THEN RootFiles
                                    ELSE <<EpubA>>]}] :
     \A c, d \in Dirs \ {Root} :
        (c # d /\ t.parent[c] = t.parent[d]) => t.dname[c] # t.dname[d]}
Trees ==
  {[parent |-> t.parent, dname |-> t.dname, files |-> t.files,
    entries |-> [d \in Dirs |-> EntriesOf(t, d)]] : t \in Shapes}

\* enumerating directory fault.dir fails after fault.at entries (0: no fault)
NoFault == [dir |-> 0, at |-> 0]
Faults == {NoFault} \cup [dir : Dirs, at : 0..2]

Nothing(depth) ==
  [files |-> << >>, threw |-> FALSE, visited |-> 0, depth |-> depth]
Larger(a, b) == IF a > b THEN a ELSE b

\* an error that leaves the scan of a directory uncaught
catchScanError_rethrow(r) == r

\* catch (error) { console.warn(...) } ... return files
catchScanError(r) == [r EXCEPT !.threw = FALSE]

RECURSIVE scanEntries(_, _, _, _, _, _)
RECURSIVE scanDirectoryForEpubsIn(_, _, _, _, _)
\* the for-await loop of one call, from entry i on
scanEntries(t, fault, d, i, processedPaths, depth) ==
  LET es == entries(t, d)
      dirPath == t.dname[d]
  IN IF fault.dir = d /\ fault.at = i - 1
     THEN [Nothing(depth) EXCEPT !.threw = TRUE]
     ELSE IF i > Len(es) THEN Nothing(depth)
     ELSE
       LET e == es[i]
           found ==
             IF e.kind = "file" /\ endsWith(toLowerCase(e.name), ".epub")
             THEN <<[handle |-> e.handle, name |-> e.name,
                     path |-> dirPath \o <<"/">> \o e.name]>>
             ELSE << >>
           sub ==
             IF /\ e.kind = "directory"
                /\ ~startsWith(e.name, ".")
                /\ Cardinality(processedPaths) < DirBudget
             THEN scanDirectoryForEpubsIn(t, fault, e.handle[1],
                                          processedPaths, depth + 1)
             ELSE Nothing(depth)
       IN IF sub.threw
          THEN [files |-> found, threw |-> TRUE, visited |-> sub.visited,
                depth |-> sub.depth]
          ELSE LET rest == scanEntries(t, fault, d, i + 1, processedPaths,
                                       depth)
               IN [files |-> found \o sub.files \o rest.files,
                   threw |-> rest.threw,
                   visited |-> sub.visited + rest.visited,
                   depth |-> Larger(sub.depth, rest.depth)]

\* one call; the callee works on its own copy of processedPaths
scanDirectoryForEpubsIn(t, fault, dirHandle, processedPaths, depth) ==
  LET dirPath == t.dname[dirHandle]
  IN IF dirPath \in processedPaths THEN Nothing(0)
     ELSE LET r == scanEntries(t, fault, dirHandle, 1,
                               processedPaths \cup {dirPath}, depth)
          IN catchScanError([r EXCEPT !.visited = @ + 1])

\* scanDirectoryForEpubs(dirHandle) on the root handle
scanRoot(fault) ==
  /\ ~scanned.done
  /\ LET r == scanDirectoryForEpubsIn(tree, fault, Root, {}, 0)
     IN scanned' = [done |-> TRUE, files |-> r.files, threw |-> r.threw,
                    visited |-> r.visited, depth |-> r.depth,
                    fault |-> fault]
  /\ evt' = [NoEvt EXCEPT !.act = "scanDirectoryForEpubs"]
  /\ UNCHANGED <<appVars, tree, dbVars, host, errorTimers, deb, bookmarksStore, cleanup>>

InitScan ==
  /\ InitCommon
  /\ disk = [f \in Paths |-> Absent]
  /\ ui = InitUI /\ booksStore = << >> /\ grid = << >>
  /\ tree \in Trees
  /\ scanned = NoScan
  /\ InitDBIdle
  /\ host = ModernHost /\ NoCleanup

NextScan == \E fault \in Faults : scanRoot(fault)

SpecScan == InitScan /\ [][NextScan]_vars


(* =================== properties of the directory scan ================= *)
RECURSIVE Reachable(_, _)
\* the directory is reached from the root through directories whose names
\* do not start with '.'
Reachable(t, d) ==
  \/ d = Root
  \/ /\ ~startsWith(t.dname[d], ".")
     /\ Reachable(t, t.parent[d])
EpubFiles(t) ==
  {h \in Dirs \X (1..Len(RootFiles)) :
     /\ Reachable(t, h[1])
     /\ h[2] <= Len(t.files[h[1]])
     /\ endsWith(toLowerCase(t.files[h[1]][h[2]]), ".epub")}
Handles(r) == {r.files[i].handle : i \in DOMAIN r.files}
FaultFree == scanned.done /\ scanned.fault = NoFault

\* C11: a scan returns exactly one descriptor for every file whose name ends
\* in .epub (case-insensitively) that is reachable from the root through
\* directories not starting with '.', and none for any other file
C11_OneDescriptorPerEpub ==
  FaultFree =>
    /\ Handles(scanned) = EpubFiles(tree)
    /\ Len(scanned.files) = Cardinality(EpubFiles(tree))


\* C12: during one scan the number of directories visited never exceeds the
\* budget (50) and the recursion depth never exceeds the maximum depth (3)
C12_WithinBudgetAndDepth ==
  scanned.done =>
    /\ scanned.visited <= DirBudget
    /\ scanned.depth <= MaxDepth


\* the tree as the scan sees it when enumerating fault.dir stops after
\* fault.at entries: the later files and subdirectories are never yielded
Truncated(t, fault) ==
  IF fault.dir = 0 THEN t
  ELSE [t EXCEPT !.entries[fault.dir] =
                    SubSeq(@, 1, IF fault.at < Len(@) THEN fault.at
                                 ELSE Len(@))]

\* C13: when enumerating a directory fails, the scan does not reject: it
\* returns the descriptors found in every other directory and those found in
\* the failing directory before the error
C13_ScanSurvivesFault ==
  scanned.done =>
    /\ ~scanned.threw
    /\ scanned.files =
         scanDirectoryForEpubsIn(Truncated(tree, scanned.fault), NoFault,
                                 Root, {}, 0).files

\* a subdirectory failed after yielding its first file; that file and the
\* root's files are returned, and a file of the subdirectory's own
\* subdirectory, never yielded, is not
C13_Witness ==
  /\ scanned.done
  /\ scanned.fault.dir # Root /\ scanned.fault.at = 1
  /\ <<scanned.fault.dir, 1>> \in Handles(scanned)
  /\ <<Root, 1>> \in Handles(scanned)
  /\ \E c \in Children(tree, scanned.fault.dir) :
        /\ tree.dname[c] = UniqueName(c)
        /\ <<c, 1>> \in EpubFiles(tree)
        /\ <<c, 1>> \notin Handles(scanned)


\* C14: in one scan two descriptors for distinct physical files never carry
\* the same path
C14_DistinctPaths ==
  scanned.done =>
    \A i, j \in DOMAIN scanned.files :
       scanned.files[i].handle # scanned.files[j].handle
         => scanned.files[i].path # scanned.files[j].path


(* ================= the indexedDB module (unnamed/part_002) =============
   getDB 19-71, executeTransaction 80-134 and the functions built on it.
   Rows of the books table are kept in booksStore.                       *)
DB_VERSION == 2
maxRetries == 3
StoreNames == {"handles", "books", "settings", "bookmarks"}

\* the kind of a value; stored rows and handles are plain objects
Kind(v) == IF "type" \in DOMAIN v THEN v.type ELSE "object"
\* v.f
Prop(v, f) == IF f \in DOMAIN v THEN v[f] ELSE UndefinedV
\* v ? ... : ...
TruthyV(v) == Kind(v) \notin {"undefined", "null"}
\* typeof v
typeof(v) ==
  CASE Kind(v) = "undefined" -> "undefined"
    [] Kind(v) = "string" -> "string"
    [] OTHER -> "object"

\* inputs of the calls
Handle(n) == [type |-> "handle", id |-> n]
Str(t) == [type |-> "string", text |-> t]
R1 ==
  [f \in {"path", "title", "progress"} |->
     CASE f = "path" -> LibPath [] f = "title" -> "A" [] f = "progress" -> 1]
R2 == [f \in {"path", "title"} |->
         CASE f = "path" -> LibPath [] f = "title" -> "B"]
\* a record without the key field of the books table
R0 == [f \in {"title"} |-> "C"]
Invocations ==
  ({"storeLibraryHandle"} \X {Handle(1), Handle(2), NullV})
  \cup ({"getStoredLibraryHandle"} \X {UndefinedV})
  \cup ({"storeBookMetadata"} \X {R1, R2, R0})
  \cup ({"getBookMetadata"} \X {[path |-> LibPath]})
  \cup ({"storeSetting"} \X {[key |-> "theme", value |-> Str("dark")]})
  \cup ({"getSetting"} \X {[key |-> "theme", defaultValue |-> Str("light")]})
Getters == {"getStoredLibraryHandle", "getBookMetadata", "getSetting"}

\* object store operations on a table (key -> row)
Get(tbl, k) == IF k \in DOMAIN tbl THEN tbl[k] ELSE UndefinedV
Put(tbl, k, row) ==
  [x \in DOMAIN tbl \cup {k} |-> IF x = k THEN row ELSE tbl[x]]
Delete(tbl, k) == [x \in DOMAIN tbl \ {k} |-> tbl[x]]

\* an upgrade that builds every store anew
upgrade_recreate(d) ==
  [d EXCEPT !.version = DB_VERSION, !.stores = StoreNames,
            !.handles = << >>, !.settings = << >>]

\* request.onupgradeneeded: createObjectStore for each store the database
\* does not contain
upgrade(d) ==
  [d EXCEPT !.version = DB_VERSION, !.stores = @ \cup StoreNames]

\* indexedDB.open(DB_NAME, DB_VERSION) succeeding: the upgrade runs only when
\* the stored version is lower
openDB(d) == IF d.version < DB_VERSION THEN upgrade(d) ELSE d

\* the IDBRequest an object store method returns; its handler attributes are
\* null until the caller assigns them
IDBRequest(result) ==
  [type |-> "IDBRequest", onsuccess |-> NullV, onerror |-> NullV,
   result |-> result]

\* operation(store): the request the callback of each function returns
operation(fn, arg, d, books) ==
  CASE fn = "storeLibraryHandle" ->
         IDBRequest(IF Kind(arg) = "null" THEN UndefinedV ELSE Str("library"))
    [] fn = "getStoredLibraryHandle" -> IDBRequest(Get(d.handles, "library"))
    \* put on a store with keyPath "path" and no key generator throws a
    \* DataError when the value has no path
    [] fn = "storeBookMetadata" ->
         IF "path" \in DOMAIN arg THEN IDBRequest(Str(arg["path"]))
         ELSE [type |-> "throw", error |-> "DataError"]
    [] fn = "getBookMetadata" -> IDBRequest(Get(books, arg.path))
    [] fn = "storeSetting" -> IDBRequest(Str(arg.key))
    [] fn = "getSetting" -> IDBRequest(Get(d.settings, arg.key))

\* the database once the transaction of the call has committed
committed(fn, arg, d) ==
  CASE fn = "storeLibraryHandle" ->
         [d EXCEPT !.handles =
            IF Kind(arg) = "null"
            THEN Delete(@, "library")
            ELSE Put(@, "library", [name |-> "library", handle |-> arg,
                                    timestamp |-> Now])]
    [] fn = "storeSetting" ->
         [d EXCEPT !.settings =
            Put(@, arg.key, [key |-> arg.key, value |-> arg.value,
                             timestamp |-> Now])]
    [] OTHER -> d
committedBooks(fn, arg, books) ==
  IF fn = "storeBookMetadata" THEN storeBookMetadata(books, arg) ELSE books

\* executeTransaction: what the promise resolves with for operation's result
resolveResult(result) ==
  IF TruthyV(result) /\ typeof(Prop(result, "onsuccess")) = "function"
  THEN Prop(result, "result")
  ELSE result

\* what each function returns for the value executeTransaction resolved with
returned(fn, arg, result) ==
  CASE fn = "getStoredLibraryHandle" ->
         IF TruthyV(result) THEN Prop(result, "handle") ELSE NullV
    [] fn = "getSetting" ->
         IF TruthyV(result) THEN Prop(result, "value") ELSE arg.defaultValue
    [] OTHER -> result

\* a settlement that resolves even when the operation threw
settle_swallow(fn, arg, result) ==
  [pc |-> "resolved", value |-> UndefinedV]

\* try { operation(store) ... } catch (error) { reject(error) }: how the
\* promise of executeTransaction, and with it the call, settles
settle(fn, arg, result) ==
  IF Kind(result) = "throw"
  THEN IF fn \in Getters
       THEN [pc |-> "resolved",
             value |-> IF fn = "getSetting" THEN arg.defaultValue ELSE NullV]
       ELSE [pc |-> "rejected", value |-> UndefinedV]
  ELSE [pc |-> "resolved", value |-> returned(fn, arg, resolveResult(result))]

\* what each getter returns from its catch block
caught(fn, arg) == IF fn = "getSetting" THEN arg.defaultValue ELSE NullV

\* a function of the module is called; calls are issued in order and none
\* is awaited before the next
invoke(c, fn, arg) ==
  /\ calls[c].pc = "idle"
  /\ \A b \in Calls : b < c => calls[b].pc # "idle"
  /\ calls' = [calls EXCEPT ![c] = [IdleCall EXCEPT !.pc = "open", !.fn = fn,
                                      !.arg = arg, !.attempt = 1]]
  /\ openQueue' = Append(openQueue, c)
  /\ dbEvt' = [NoDbEvt EXCEPT !.act = "invoke", !.call = c]
  /\ evt' = [NoEvt EXCEPT !.act = "indexedDB"]
  /\ UNCHANGED <<appVars, scanVars, idb, blocker,
                 host, errorTimers, deb, bookmarksStore, cleanup>>

\* the oldest pending open request fails: request.onerror, the await in
\* executeTransaction throws into its catch block
getDB_rejects ==
  /\ openQueue # << >>
  /\ LET c == Head(openQueue)
         k == calls[c].attempt
     IN /\ calls' =
             [calls EXCEPT ![c] =
                IF k < maxRetries
                THEN [@ EXCEPT !.pc = "backoff"]
                ELSE IF @.fn \in Getters
                THEN [@ EXCEPT !.pc = "resolved", !.attempt = 0,
                               !.value = caught(calls[c].fn, calls[c].arg)]
                ELSE [@ EXCEPT !.pc = "rejected", !.attempt = 0]]
        /\ dbEvt' = [NoDbEvt EXCEPT !.act = "openFailed", !.call = c,
                                    !.attempt = k,
                                    !.delay = IF k < maxRetries THEN k * 100
                                              ELSE 0,
                                    !.opened = idb]
  /\ openQueue' = Tail(openQueue)
  /\ evt' = [NoEvt EXCEPT !.act = "indexedDB"]
  /\ UNCHANGED <<appVars, scanVars, idb, blocker,
                 host, errorTimers, deb, bookmarksStore, cleanup>>

\* setTimeout(resolve, attempt * 100) fires: the loop makes its next attempt
backoffElapsed(c) ==
  /\ calls[c].pc = "backoff"
  /\ calls' = [calls EXCEPT ![c].pc = "open", ![c].attempt = @ + 1]
  /\ openQueue' = Append(openQueue, c)
  /\ dbEvt' = [NoDbEvt EXCEPT !.act = "retry", !.call = c]
  /\ evt' = [NoEvt EXCEPT !.act = "indexedDB"]
  /\ UNCHANGED <<appVars, scanVars, idb, blocker,
                 host, errorTimers, deb, bookmarksStore, cleanup>>

\* the oldest pending open request succeeds (after the upgrade, if one is
\* needed); executeTransaction creates the transaction, runs the operation
\* and settles its promise; the transaction then commits or aborts
getDB_resolves(tx) ==
  /\ openQueue # << >>
  /\ ~(blocker /\ idb.version < DB_VERSION)
  /\ LET c == Head(openQueue)
         fn == calls[c].fn
         arg == calls[c].arg
         db == openDB(idb)
         result == operation(fn, arg, db, booksStore)
         threw == Kind(result) = "throw"
     IN /\ threw => tx = "complete"
        /\ idb' = IF tx = "complete" /\ ~threw THEN committed(fn, arg, db)
                  ELSE db
        /\ booksStore' = IF tx = "complete" /\ ~threw
                         THEN committedBooks(fn, arg, booksStore)
                         ELSE booksStore
        /\ calls' =
             [calls EXCEPT ![c].pc = settle(fn, arg, result).pc,
                           ![c].attempt = 0,
                           ![c].tx = IF threw THEN "none" ELSE tx,
                           ![c].value = settle(fn, arg, result).value]
        /\ dbEvt' = [act |-> "transaction", call |-> c,
                     attempt |-> calls[c].attempt, delay |-> 0,
                     tx |-> IF threw THEN "none" ELSE tx,
                     row |-> Prop(result, "result"), opened |-> db,
                     upgraded |-> idb.version < DB_VERSION]
  /\ openQueue' = Tail(openQueue)
  /\ evt' = [NoEvt EXCEPT !.act = "indexedDB"]
  /\ UNCHANGED <<sessionVars, navVars, libVars, ui, ops, scanVars, blocker,
                 host, errorTimers, deb, bookmarksStore, cleanup>>

\* the oldest pending open request needs an upgrade while another tab holds
\* the database open: request.onblocked logs a warning; the request stays
\* pending
getDB_blocked ==
  /\ openQueue # << >>
  /\ blocker /\ idb.version < DB_VERSION
  /\ dbEvt.act # "blocked"
  /\ dbEvt' = [NoDbEvt EXCEPT !.act = "blocked", !.call = Head(openQueue),
                              !.attempt = calls[Head(openQueue)].attempt,
                              !.opened = idb]
  /\ evt' = [NoEvt EXCEPT !.act = "indexedDB"]
  /\ UNCHANGED <<appVars, scanVars, idb, calls, openQueue, blocker,
                 host, errorTimers, deb, bookmarksStore, cleanup>>

\* the other tab is closed
blockerCloses ==
  /\ blocker
  /\ blocker' = FALSE
  /\ dbEvt' = [NoDbEvt EXCEPT !.act = "unblocked"]
  /\ evt' = [NoEvt EXCEPT !.act = "indexedDB"]
  /\ UNCHANGED <<appVars, scanVars, idb, calls, openQueue,
                 host, errorTimers, deb, bookmarksStore, cleanup>>

\* the database the browser holds when the page loads: none, one created by
\* version 1 of the module (only the handles store), or a current one
InitialDBs ==
  {NoDB}
  \cup {[version |-> 1, stores |-> {"handles"}, handles |-> h,
         settings |-> << >>] :
          h \in {<< >>, Put(<< >>, "library",
                            [name |-> "library", handle |-> Handle(0)])}}
  \cup {[version |-> DB_VERSION, stores |-> StoreNames, handles |-> << >>,
         settings |-> << >>]}

InitDB ==
  /\ InitCommon
  /\ disk = [f \in Paths |-> Absent]
  /\ ui = InitUI /\ grid = << >>
  /\ tree = NoTree /\ scanned = NoScan
  /\ idb \in InitialDBs
  \* a current database may hold a book record of an earlier session
  /\ \/ booksStore = << >>
     \/ idb.version = DB_VERSION /\ booksStore = storeBookMetadata(<< >>, R1)
  /\ calls = [c \in Calls |-> IdleCall]
  /\ openQueue = << >>
  /\ dbEvt = NoDbEvt
  \* a database of the older version may still be open in another tab
  /\ blocker \in {FALSE, idb.version \in 1..(DB_VERSION - 1)}
  /\ host = ModernHost /\ NoCleanup

NextDB ==
  \/ \E c \in Calls, i \in Invocations : invoke(c, i[1], i[2])
  \/ getDB_rejects
  \/ \E c \in Calls : backoffElapsed(c)
  \/ \E tx \in {"complete", "abort"} : getDB_resolves(tx)
  \/ getDB_blocked
  \/ blockerCloses

SpecDB == InitDB /\ [][NextDB]_vars

\* the calls that store and read the library handle, the only table a
\* database of version 1 has
HandleInvocations ==
  {i \in Invocations :
     i[1] \in {"storeLibraryHandle", "getStoredLibraryHandle"}}
NextHandles ==
  \/ \E c \in Calls, i \in HandleInvocations : invoke(c, i[1], i[2])
  \/ getDB_rejects
  \/ \E c \in Calls : backoffElapsed(c)
  \/ \E tx \in {"complete", "abort"} : getDB_resolves(tx)
  \/ getDB_blocked
  \/ blockerCloses

SpecHandles == InitDB /\ [][NextHandles]_vars

\* the calls that store and read book records
NextBooks ==
  \/ \E c \in Calls, i \in Invocations :
        /\ i[1] \in {"storeBookMetadata", "getBookMetadata"}
        /\ invoke(c, i[1], i[2])
  \/ getDB_rejects
  \/ \E c \in Calls : backoffElapsed(c)
  \/ \E tx \in {"complete", "abort"} : getDB_resolves(tx)
  \/ getDB_blocked
  \/ blockerCloses

SpecBooks == InitDB /\ [][NextBooks]_vars


(* =================== properties of the indexedDB module =============== *)
\* the last step ran the transaction of a call of fn
Ran(fn) == dbEvt.act = "transaction" /\ calls[dbEvt.call].fn = fn
Returned == calls[dbEvt.call].value

\* C15: getStoredLibraryHandle() returns the handle stored under "library"
\* (after storeLibraryHandle(h) completed: h), and null when nothing is stored
C15_HandleRoundTrip ==
  Ran("getStoredLibraryHandle") =>
    Returned = IF "library" \in DOMAIN idb.handles
               THEN idb.handles["library"].handle ELSE NullV

\* C16: after storeBookMetadata(r1) and storeBookMetadata(r2) with the same
\* path, the books table holds one record for the path, with the fields of
\* r2, and getBookMetadata(path) returns that record
C16_LaterRecordWins ==
  /\ Ran("storeBookMetadata") /\ dbEvt.tx = "complete" =>
       booksStore[LibPath] = BookData(calls[dbEvt.call].arg)
  /\ Ran("getBookMetadata") /\ LibPath \in DOMAIN booksStore =>
       Returned = booksStore[LibPath]

\* C17: when storeLibraryHandle(h1), ..., storeLibraryHandle(hn) were issued
\* in this order without awaiting and all have completed, the row a
\* subsequent getStoredLibraryHandle() reads holds hn, whatever open
\* failures and retries occurred
C17_LastWriteWins ==
  (\A c \in Calls :
      /\ calls[c].fn = "storeLibraryHandle" /\ TruthyV(calls[c].arg)
      /\ calls[c].pc = "resolved" /\ calls[c].tx = "complete")
    => Get(idb.handles, "library").handle = calls[MaxCalls].arg

\* C18: an operation is attempted at most 3 times; a failure on attempt
\* k < 3 (the open failing, or the transaction erroring or aborting) is
\* followed, after k * 100 ms, by another attempt; the operation rejects only
\* after 3 failed attempts
C18_RetriedUpToThreeTimes ==
  LET c == dbEvt.call
      failed == \/ dbEvt.act = "openFailed"
                \/ dbEvt.act = "transaction" /\ dbEvt.tx = "abort"
  IN /\ dbEvt.attempt <= maxRetries
     /\ failed /\ dbEvt.attempt < maxRetries =>
          calls[c].pc = "backoff" /\ dbEvt.delay = dbEvt.attempt * 100
     /\ failed /\ calls[c].pc = "rejected" => dbEvt.attempt = maxRetries

\* C19: getBookMetadata(path) and getSetting(key, default) resolve to the
\* stored record / value when there is one and to the sentinel (null or
\* undefined; the supplied default) when there is none, and never reject
C19_GettersResolve ==
  /\ \A c \in Calls : calls[c].fn \in Getters => calls[c].pc # "rejected"
  /\ Ran("getBookMetadata") =>
       IF LibPath \in DOMAIN booksStore
       THEN Returned = booksStore[LibPath]
       ELSE Returned \in {NullV, UndefinedV}
  /\ Ran("getSetting") =>
       Returned = IF "theme" \in DOMAIN idb.settings
                  THEN idb.settings["theme"].value
                  ELSE calls[dbEvt.call].arg.defaultValue

\* C20: opening the database creates each of the four tables only if it is
\* missing and removes or empties none (rows written under version 1
\* survive the upgrade); opening at the current version runs no upgrade
C20_UpgradeKeepsTables ==
  [][dbEvt'.act = "transaction" =>
       /\ dbEvt'.opened.stores = idb.stores \cup StoreNames
       /\ dbEvt'.opened.handles = idb.handles
       /\ dbEvt'.opened.settings = idb.settings
       /\ dbEvt'.upgraded <=> idb.version < DB_VERSION
       /\ idb.version = DB_VERSION => dbEvt'.opened = idb]_vars

\* a database of version 1 holding a handle has been opened: the upgrade
\* ran, the four tables exist and the handle row is still there
C20_Witness ==
  /\ dbEvt.act = "transaction" /\ dbEvt.upgraded
  /\ dbEvt.opened.version = DB_VERSION
  /\ dbEvt.opened.stores = StoreNames
  /\ Get(dbEvt.opened.handles, "library") =
       [name |-> "library", handle |-> Handle(0)]


\* C21: when a schema upgrade is blocked by another open session, the open
\* attempt, and the store operation built on it, settles with a failure the
\* caller can observe
C21_BlockedOpenFails ==
  dbEvt.act = "blocked" =>
    /\ calls[dbEvt.call].pc \in {"rejected", "resolved"}
    /\ calls[dbEvt.call].fn \notin Getters => calls[dbEvt.call].pc = "rejected"


NoKeyPut ==
  /\ Ran("storeBookMetadata")
  /\ "path" \notin DOMAIN calls[dbEvt.call].arg

\* C22: a put of a record that lacks the key field of its table
\* (storeBookMetadata with no path) fails with an error the caller sees and
\* leaves the contents of the table unchanged
C22_PutWithoutKeyFails ==
  [][NoKeyPut' => /\ calls'[dbEvt'.call].pc = "rejected"
                  /\ booksStore' = booksStore]_vars

\* storeBookMetadata was called without a path on a table that holds a record
C22_Witness ==
  /\ NoKeyPut
  /\ calls[dbEvt.call].pc = "rejected"
  /\ LibPath \in DOMAIN booksStore


(* ===================== further properties of the session ============== *)
\* C23: no input larger than 100 MB is ever read by any open path (file
\* input, drag-and-drop, library entry): it is rejected before a read starts
C23_NoReadAboveLimit ==
  evt.reads > 0 => evt.file[3] <= SizeLimit

(* ------- openLibrary from its first line (main.test.spec.js 424-499) --- *)
\* the handles a directory picker hands out; the store's earlier handles
\* are Handle(0) and Handle(1)
Picked == Handle(2)

\* the host has withdrawn the permission of the handles of earlier visits
Revoked(h) == host.revoked /\ h # Picked

\* the row of the library handle in the store
StoredRow(d) == Get(d.handles, "library")

\* await getStoredLibraryHandle() (part_002 157-167) as openLibrary sees it
getStoredLibraryHandle(d, read) ==
  IF read = "fails"
  THEN caught("getStoredLibraryHandle", UndefinedV)
  ELSE settle("getStoredLibraryHandle", UndefinedV,
              operation("getStoredLibraryHandle", UndefinedV, openDB(d),
                        << >>)).value

\* a boundary that lets the failure go unannounced
openLibrary_catch_silent(u) == hideLoading(u)

\* catch (err) and finally of openLibrary (493-498)
openLibrary_catch(u) ==
  hideLoading(showError(u, <<"Failed to open library: ", "err.message">>,
                        "openLibrary"))

PermissionDenied ==
  <<"Permission denied for library folder. Please select the folder again.">>

\* openLibrary (424-437): showLoading, the stored handle, and the branch
\* taken when there is none; u is the interface the call finds, by the
\* handler that made the call
openLibrary_call(u, read, by) ==
  /\ lib.pc = "idle"
  /\ LET dirHandle == getStoredLibraryHandle(idb, read)
         was == /\ read = "ok" /\ TruthyV(StoredRow(idb))
                /\ Revoked(StoredRow(idb).handle)
         called == [NoEvt EXCEPT !.cause = by, !.req = <<"openLibrary">>,
                                 !.file = <<"getStoredLibraryHandle", read>>]
     IN IF TruthyV(dirHandle)
        THEN /\ lib' = [IdleLib EXCEPT !.pc = "permission",
                                       !.dir = dirHandle, !.revoked = was]
             /\ ui' = showLoading(u)
             /\ evt' = [called EXCEPT !.act = "openLibrary_begin"]
        ELSE IF ~host.picker
        THEN /\ lib' = [IdleLib EXCEPT !.revoked = was]
             /\ ui' = hideLoading(hideLoading(showLoading(u)))
             /\ evt' = [called EXCEPT !.act = "openLibrary_fileInput"]
        ELSE /\ lib' = [IdleLib EXCEPT !.pc = "picker", !.revoked = was]
             /\ ui' = showLoading(u)
             /\ evt' = [called EXCEPT !.act = "openLibrary_begin"]
  /\ idb' = IF read = "ok" THEN openDB(idb) ELSE idb
  /\ UNCHANGED <<sessionVars, navVars, ops, booksStore, disk, grid, parsed>>
  /\ UNCHANGED <<scanVars, calls, openQueue, dbEvt, blocker,
                 host, errorTimers, deb, bookmarksStore, cleanup>>

\* libraryButton.addEventListener('click', openLibrary) (main.js 46)
openLibrary_begin(read) == openLibrary_call(ui, read, "click")

\* handleRetry (main.js 234-239), the click handler of the retry button
\* that showError displays with a retry action: hideError(), then the test
\* of lastFailedAction
handleRetry(read) ==
  /\ ui.error /\ ui.retry # "none"
  /\ LET hidden == hideError(ui)
         lastFailedAction == hidden.retry
     IN IF lastFailedAction = "openLibrary"
        THEN openLibrary_call(hidden, read, "handleRetry")
        ELSE /\ ui' = hidden
             /\ evt' = [NoEvt EXCEPT !.act = "handleRetry"]
             /\ UNCHANGED <<sessionVars, navVars, ops, booksStore, libVars>>
             /\ UNCHANGED otherVars

\* await window.showDirectoryPicker(...) settles (440-443, 450-455)
showDirectoryPicker_settles(outcome) ==
  /\ lib.pc = "picker"
  /\ CASE outcome = "picked" ->
            /\ lib' = [lib EXCEPT !.pc = "storing", !.dir = Picked]
            /\ ui' = ui
            /\ evt' = [NoEvt EXCEPT !.act = "openLibrary_picked"]
       [] outcome = "AbortError" ->
            /\ lib' = [lib EXCEPT !.pc = "idle"]
            /\ ui' = hideLoading(hideLoading(ui))
            /\ evt' = [NoEvt EXCEPT !.act = "openLibrary_aborted"]
       [] OTHER ->
            /\ lib' = [lib EXCEPT !.pc = "idle"]
            /\ ui' = openLibrary_catch(hideLoading(ui))
            /\ evt' = [NoEvt EXCEPT !.act = "openLibrary_failed",
                                    !.cause = "picker",
                                    !.errs = <<ui'.errText>>]
  /\ UNCHANGED <<sessionVars, navVars, ops, booksStore, disk, grid, parsed>>
  /\ UNCHANGED otherVars

\* await storeLibraryHandle(dirHandle); showSuccess(...) (446-448)
storeLibraryHandle_settles(ok) ==
  /\ lib.pc = "storing"
  /\ IF ok
     THEN /\ idb' = committed("storeLibraryHandle", lib.dir, openDB(idb))
          /\ lib' = [lib EXCEPT !.pc = "permission"]
          /\ ui' = showSuccess(ui)
          /\ evt' = [NoEvt EXCEPT !.act = "openLibrary_stored",
                                  !.succ = TRUE]
     ELSE /\ idb' = idb
          /\ lib' = [lib EXCEPT !.pc = "idle"]
          /\ ui' = openLibrary_catch(hideLoading(ui))
          /\ evt' = [NoEvt EXCEPT !.act = "openLibrary_failed",
                                  !.cause = "storeLibraryHandle",
                                  !.errs = <<ui'.errText>>]
  /\ UNCHANGED <<sessionVars, navVars, ops, booksStore, disk, grid, parsed>>
  /\ UNCHANGED <<scanVars, calls, openQueue, dbEvt, blocker,
                 host, errorTimers, deb, bookmarksStore, cleanup>>

\* queryPermission and requestPermission (459-471); a handle whose
\* permission the host has revoked is denied both times
permission_settles(query, request) ==
  /\ lib.pc = "permission"
  /\ Revoked(lib.dir) => (query = "prompt" /\ request = "denied")
  /\ IF query = "granted" \/ request = "granted"
     THEN /\ lib' = [lib EXCEPT !.pc = "granted"]
          /\ ui' = ui
          /\ evt' = [NoEvt EXCEPT !.act = "openLibrary_granted"]
     ELSE /\ lib' = [lib EXCEPT !.pc = "clearing"]
          /\ ui' = showError(hideLoading(ui), PermissionDenied, "none")
          /\ evt' = [NoEvt EXCEPT !.act = "openLibrary_denied",
                                  !.errs = <<ui'.errText>>]
  /\ UNCHANGED <<sessionVars, navVars, ops, booksStore, disk, grid, parsed>>
  /\ UNCHANGED otherVars

\* await storeLibraryHandle(null); return (468-469)
clearHandle_settles(ok) ==
  /\ lib.pc = "clearing"
  /\ lib' = [lib EXCEPT !.pc = "idle"]
  /\ IF ok
     THEN /\ idb' = committed("storeLibraryHandle", NullV, openDB(idb))
          /\ ui' = hideLoading(ui)
          /\ evt' = [NoEvt EXCEPT !.act = "openLibrary_cleared"]
     ELSE /\ idb' = idb
          /\ ui' = openLibrary_catch(ui)
          /\ evt' = [NoEvt EXCEPT !.act = "openLibrary_failed",
                                  !.cause = "clearHandle",
                                  !.errs = <<ui'.errText>>]
  /\ UNCHANGED <<sessionVars, navVars, ops, booksStore, disk, grid, parsed>>
  /\ UNCHANGED <<scanVars, calls, openQueue, dbEvt, blocker,
                 host, errorTimers, deb, bookmarksStore, cleanup>>

Failing == {"none", "scan", "getStoredBooks", "display"}

\* scanDirectoryForEpubs, getStoredBooks, mergeFilesWithMetadata,
\* displayLibraryGrid and toggleLibrary(true) (477-491); failing names the
\* call whose underlying operation fails: the scan (523-535) and
\* getStoredBooks (part_002 262-266) absorb their own failure
openLibrary_rest(failing) ==
  /\ lib.pc = "granted"
  /\ LET files == IF failing = "scan" THEN <<>>
                  ELSE scanDirectoryForEpubs(disk)
         cachedBooks == IF failing = "getStoredBooks" THEN << >>
                        ELSE booksStore
         booksWithMetadata ==
           mergeFilesWithMetadata(files, cachedBooks, disk, {})
     IN IF failing = "display"
        THEN /\ grid' = <<>>
             /\ lib' = [lib EXCEPT !.pc = "idle"]
             /\ ui' = openLibrary_catch(ui)
             /\ evt' = [NoEvt EXCEPT !.act = "openLibrary_failed",
                                     !.cause = failing,
                                     !.errs = <<ui'.errText>>]
        ELSE /\ grid' = displayLibraryGrid(booksWithMetadata)
             /\ lib' = [lib EXCEPT !.pc = "idle", !.files = files,
                                   !.entries = booksWithMetadata]
             /\ ui' = hideLoading(toggleLibrary(ui, "open"))
             /\ evt' = [NoEvt EXCEPT !.act = "openLibrary_display",
                                     !.cause = failing]
  /\ UNCHANGED <<sessionVars, navVars, ops, booksStore, disk, parsed>>
  /\ UNCHANGED otherVars

\* a filter that compares the extension as typed
epubFilter_exact(files) ==
  SelectSeq(files, LAMBDA name : endsWith(name, ".epub"))

\* files.filter(file => file.name.toLowerCase().endsWith('.epub')) (590)
epubFilter(files) ==
  SelectSeq(files, LAMBDA name : endsWith(toLowerCase(name), ".epub"))

\* the File objects of a selection as library entries: no path, no cache
FileEntries(files) ==
  [i \in 1..Len(files) |->
     [path |-> "none", name |-> files[i], cached |-> FALSE, meta |-> <<>>]]

MaxFiles == 2
Selections ==
  UNION {[1..n -> FileNames] : n \in 1..MaxFiles}

\* handleLibraryFiles (588-603), the change handler of library-input,
\* which openLibrary clicks on a host without a directory picker
handleLibraryFiles(files) ==
  /\ lib.pc = "idle" /\ ~host.picker
  /\ LET epubFiles == epubFilter(files)
     IN IF Len(epubFiles) = 0
        THEN /\ ui' = showError(ui, <<"No EPUB files found in selection.">>,
                                "none")
             /\ grid' = grid
             /\ evt' = [NoEvt EXCEPT !.act = "handleLibraryFiles",
                                     !.req = files,
                                     !.errs = <<ui'.errText>>]
        ELSE /\ ui' = toggleLibrary(IF Len(epubFiles) # Len(files)
                                    THEN showSuccess(ui) ELSE ui, "open")
             /\ grid' = displayLibraryGrid(FileEntries(epubFiles))
             /\ evt' = [NoEvt EXCEPT !.act = "handleLibraryFiles",
                                     !.req = files, !.disp = epubFiles,
                                     !.succ = Len(epubFiles) # Len(files)]
  /\ UNCHANGED <<sessionVars, navVars, ops, booksStore, disk, lib, parsed>>
  /\ UNCHANGED otherVars

\* the store with a library handle saved by an earlier visit
StoredDB ==
  [version |-> DB_VERSION, stores |-> StoreNames,
   handles |-> Put(<< >>, "library",
                   [name |-> "library", handle |-> Handle(1),
                    timestamp |-> Now]),
   settings |-> << >>]

InitEntry ==
  /\ InitCommon
  /\ tree = NoTree /\ scanned = NoScan
  /\ calls = [c \in Calls |-> IdleCall] /\ openQueue = <<>>
  /\ dbEvt = NoDbEvt /\ blocker = FALSE
  /\ idb \in InitialDBs \cup {StoredDB}
  /\ host \in [picker : BOOLEAN, revoked : BOOLEAN] /\ NoCleanup
  /\ disk = [f \in Paths |-> 1]
  /\ ui = InitUI /\ booksStore = << >> /\ grid = << >>

NextEntry ==
  \/ \E read \in {"ok", "fails"} : openLibrary_begin(read)
  \/ \E outcome \in {"picked", "AbortError", "NotAllowedError"} :
       showDirectoryPicker_settles(outcome)
  \/ \E ok \in BOOLEAN : storeLibraryHandle_settles(ok)
  \/ \E query \in {"granted", "prompt"}, request \in {"granted", "denied"} :
       permission_settles(query, request)
  \/ \E ok \in BOOLEAN : clearHandle_settles(ok)
  \/ \E failing \in Failing : openLibrary_rest(failing)
  \/ \E files \in Selections : handleLibraryFiles(files)
  \/ \E read \in {"ok", "fails"} : handleRetry(read)
  \/ closeError
  \/ closeSuccess
  \/ closeLibrary

SpecEntry == InitEntry /\ [][NextEntry]_vars

(* ------- one pass of the library with every outcome of the fetch ------ *)
\* the folder does not change while the library is shown
NextFetch ==
  \/ openLibrary_scan
  \/ openLibrary_getStoredBooks
  \/ \E unread \in SUBSET Paths : openLibrary_merge(unread)
  \/ openLibrary_display
  \/ \E i \in 1..Len(ScanOrder), o \in AllFetchOutcomes :
       loadItemMetadata(i, o)

SpecFetch == InitLib /\ [][NextFetch]_vars

(* ---------- displayLibraryGrid in batches (609-655) -------------------- *)
GridNames(g) == [i \in 1..Len(g) |-> g[i].name]
batchSize == 6
MaxEntries == 7
EntryNames == [i \in 1..MaxEntries |-> <<ToString(i), ".epub">>]

\* the batch an entry falls in, counted from 0
BatchOf(i) == (i - 1) \div batchSize

\* displayLibraryGrid (609-617) called with the first n File entries; the
\* model follows one display of a non-empty library
displayLibraryGrid_start(n) ==
  /\ lib.pc = "idle" /\ lib.entries = <<>>
  /\ grid' = <<>>
  /\ lib' = [IdleLib EXCEPT
       !.pc = IF n = 0 THEN "idle" ELSE "batch",
       !.entries = FileEntries(SubSeq(EntryNames, 1, n))]
  /\ evt' = [NoEvt EXCEPT !.act = "displayLibraryGrid_start"]
  /\ UNCHANGED <<sessionVars, navVars, ops, booksStore, disk, parsed, ui>>
  /\ UNCHANGED otherVars

\* one round of the loop (633-648): the items of the batch are created,
\* which starts their loadItemMetadata without awaiting it (750), and are
\* appended in order; the loop then waits 50 ms or ends
displayLibraryGrid_batch ==
  /\ lib.pc = "batch"
  /\ LET i == Len(grid)
         last == IF i + batchSize < Len(lib.entries) THEN i + batchSize
                 ELSE Len(lib.entries)
         batch == SubSeq(lib.entries, i + 1, last)
         batchItems == [k \in 1..Len(batch) |-> createLibraryItem(batch[k])]
     IN /\ grid' = grid \o batchItems
        /\ lib' = [lib EXCEPT !.pc = IF i + batchSize < Len(lib.entries)
                                     THEN "delay" ELSE "idle"]
        /\ evt' = [NoEvt EXCEPT !.act = "displayLibraryGrid_batch",
                                !.disp = GridNames(batchItems)]
  /\ UNCHANGED <<sessionVars, navVars, ops, booksStore, disk, parsed, ui>>
  /\ UNCHANGED otherVars

\* await new Promise(resolve => setTimeout(resolve, 50)) (646-648)
displayLibraryGrid_delay ==
  /\ lib.pc = "delay"
  /\ lib' = [lib EXCEPT !.pc = "batch"]
  /\ evt' = [NoEvt EXCEPT !.act = "displayLibraryGrid_delay"]
  /\ UNCHANGED <<sessionVars, navVars, ops, booksStore, disk, grid, parsed,
                 ui>>
  /\ UNCHANGED otherVars

\* the asynchronous part of loadItemMetadata (796-843) for the File entry
\* of grid item i: the record is stored under fileEntry.name (826)
loadFileMetadata(i, outcome) ==
  /\ i \in 1..Len(grid) /\ grid[i].st = "pending"
  /\ grid' = [grid EXCEPT
       ![i].st = "done",
       ![i].title = IF outcome \in {"ok", "coverFails"} THEN "T" ELSE @,
       ![i].img = IF outcome = "ok" THEN "coverUrl" ELSE @]
  /\ booksStore' =
       IF outcome \in {"ok", "coverFails"}
       THEN storeBookMetadata(booksStore,
              [f \in {"path", "title", "lastModified"} |->
                 CASE f = "path" -> grid[i].name
                   [] f = "title" -> "T"
                   [] f = "lastModified" -> 1])
       ELSE booksStore
  /\ evt' = [NoEvt EXCEPT !.act = "fetch", !.op = i]
  /\ UNCHANGED <<sessionVars, navVars, ops, disk, lib, parsed, ui>>
  /\ UNCHANGED otherVars

InitGrid ==
  /\ InitCommon
  /\ InitOther
  /\ disk = [f \in Paths |-> Absent]
  /\ ui = InitUI /\ booksStore = << >> /\ grid = << >>

NextGrid ==
  \/ \E n \in 0..MaxEntries : displayLibraryGrid_start(n)
  \/ displayLibraryGrid_batch
  \/ displayLibraryGrid_delay
  \/ \E i \in 1..MaxEntries, o \in {"ok", "parseFails"} :
       loadFileMetadata(i, o)

SpecGrid == InitGrid /\ [][NextGrid]_vars

(* --------------- cleanupDatabase (part_002 561-609) ------------------- *)
MaxBookmarks == 2
\* Date.now() when cleanupDatabase runs, and options.maxAge
CleanupTimes == {Now, Now + 2}
MaxAges == {1}

\* the bookmarks of the books in paths
BookmarksOf(rows, paths) == {id \in DOMAIN rows : rows[id].bookPath \in paths}

\* allBookmarks.filter(bookmark => !bookPaths.has(bookmark.bookPath))
\* (589-595); a failed read has given [] (part_002 264-267, 473-476)
orphanedBookmarks(allBookmarks, allBooks) ==
  {id \in DOMAIN allBookmarks :
     allBookmarks[id].bookPath \notin DOMAIN allBooks}

\* storeBookMetadata by another caller while the tables are in this state
storeBook(path, lastAccessed) ==
  /\ booksStore' = storeBookMetadata(booksStore,
       [f \in {"path", "title", "lastAccessed"} |->
          CASE f = "path" -> path
            [] f = "title" -> TitleOf(path)
            [] f = "lastAccessed" -> lastAccessed])
  /\ booksStore' # booksStore
  /\ cleanup' = [cleanup EXCEPT !.quiet = @ /\ cleanup.pc = "idle"]
  /\ evt' = [NoEvt EXCEPT !.act = "storeBook"]
  /\ UNCHANGED <<sessionVars, navVars, libVars, ui, ops, scanVars, dbVars,
                 host, errorTimers, deb, bookmarksStore>>

\* removeBookMetadata (part_002 303-307): the bookmarks of the book stay
removeBookMetadata(path) ==
  /\ path \in DOMAIN booksStore
  /\ booksStore' = [f \in DOMAIN booksStore \ {path} |-> booksStore[f]]
  /\ cleanup' = [cleanup EXCEPT !.quiet = @ /\ cleanup.pc = "idle"]
  /\ evt' = [NoEvt EXCEPT !.act = "removeBookMetadata"]
  /\ UNCHANGED <<sessionVars, navVars, libVars, ui, ops, scanVars, dbVars,
                 host, errorTimers, deb, bookmarksStore>>

\* addBookmark (part_002 400-417): store.add with the table's key generator
addBookmark(bookPath) ==
  /\ bookmarksStore.last < MaxBookmarks
  /\ LET id == bookmarksStore.last + 1
     IN bookmarksStore' =
          [rows |-> [k \in DOMAIN bookmarksStore.rows \cup {id} |->
                       IF k = id THEN [id |-> id, bookPath |-> bookPath]
                       ELSE bookmarksStore.rows[k]],
           last |-> id]
  /\ cleanup' = [cleanup EXCEPT !.quiet = @ /\ cleanup.pc = "idle"]
  /\ evt' = [NoEvt EXCEPT !.act = "addBookmark"]
  /\ UNCHANGED <<sessionVars, navVars, libVars, ui, ops, booksStore,
                 scanVars, dbVars, host, errorTimers, deb>>

\* cleanupDatabase up to the end of the loop over the old books (562-584);
\* read is the outcome of getStoredBooks
cleanupDatabase_books(now, maxAge, read) ==
  /\ cleanup.pc = "idle"
  /\ LET cutoffTime == now - maxAge
         books == IF read = "fails" THEN << >> ELSE booksStore
         oldBooks == {f \in DOMAIN books : books[f].lastAccessed < cutoffTime}
         gone == BookmarksOf(bookmarksStore.rows, oldBooks)
     IN /\ booksStore' = [f \in DOMAIN booksStore \ oldBooks |-> booksStore[f]]
        /\ bookmarksStore' =
             [bookmarksStore EXCEPT
                !.rows = [k \in DOMAIN @ \ gone |-> @[k]]]
        /\ cleanup' = [IdleCleanup EXCEPT
             !.pc = "bookmarks",
             !.failed = IF read = "fails" THEN {"books"} ELSE {}]
        /\ evt' = [NoEvt EXCEPT !.act = "cleanupDatabase_books"]
  /\ UNCHANGED <<sessionVars, navVars, libVars, ui, ops, scanVars, dbVars,
                 host, errorTimers, deb>>

\* getAllBookmarks, getStoredBooks and the filter (587-595); each read
\* gives [] when it fails
cleanupDatabase_reads(readBookmarks, readBooks) ==
  /\ cleanup.pc = "bookmarks"
  /\ LET allBookmarks == IF readBookmarks = "fails" THEN << >>
                         ELSE bookmarksStore.rows
         allBooks == IF readBooks = "fails" THEN << >> ELSE booksStore
         failed == {t \in {"bookmarks", "books"} :
                      \/ t = "bookmarks" /\ readBookmarks = "fails"
                      \/ t = "books" /\ readBooks = "fails"}
     IN cleanup' = [cleanup EXCEPT
          !.pc = "removing",
          !.orphaned = orphanedBookmarks(allBookmarks, allBooks),
          !.failed = @ \cup failed]
  /\ evt' = [NoEvt EXCEPT !.act = "cleanupDatabase_reads"]
  /\ UNCHANGED <<sessionVars, navVars, libVars, ui, ops, booksStore,
                 scanVars, dbVars, host, errorTimers, deb, bookmarksStore>>

\* the loop of removeBookmark(bookmark.id) and the return (597-603)
cleanupDatabase_remove ==
  /\ cleanup.pc = "removing"
  /\ LET gone == cleanup.orphaned \cap DOMAIN bookmarksStore.rows
     IN /\ bookmarksStore' =
             [bookmarksStore EXCEPT
                !.rows = [k \in DOMAIN @ \ gone |-> @[k]]]
        /\ cleanup' = [cleanup EXCEPT
             !.pc = "idle",
             !.removed = {bookmarksStore.rows[k].bookPath : k \in gone}]
  /\ evt' = [NoEvt EXCEPT !.act = "cleanupDatabase_remove"]
  /\ UNCHANGED <<sessionVars, navVars, libVars, ui, ops, booksStore,
                 scanVars, dbVars, host, errorTimers, deb>>

InitCleanup ==
  /\ InitCommon
  /\ InitOther
  /\ disk = [f \in Paths |-> Absent]
  /\ ui = InitUI /\ booksStore = << >> /\ grid = << >>

NextCleanup ==
  \/ \E f \in Paths, t \in CleanupTimes : storeBook(f, t)
  \/ \E f \in Paths : removeBookMetadata(f)
  \/ \E f \in Paths : addBookmark(f)
  \/ \E now \in CleanupTimes, maxAge \in MaxAges, read \in {"ok", "fails"} :
       cleanupDatabase_books(now, maxAge, read)
  \/ \E readBookmarks \in {"ok", "fails"}, readBooks \in {"ok", "fails"} :
       cleanupDatabase_reads(readBookmarks, readBooks)
  \/ cleanupDatabase_remove

SpecCleanup == InitCleanup /\ [][NextCleanup]_vars

(* ---------------------- properties of openLibrary --------------------- *)
\* the steps that end a call of openLibrary
EndOfOpenLibrary ==
  {"openLibrary_fileInput", "openLibrary_aborted", "openLibrary_failed",
   "openLibrary_cleared", "openLibrary_display"}

\* C24: when the stored handle has lost its permission and the re-request
\* is denied, openLibrary scans nothing, does not open the panel, and ends
\* with the stored handle cleared
C24_RevokedHandleCleared ==
  lib.revoked =>
    /\ lib.pc # "granted"
    /\ evt.act # "openLibrary_display"
    /\ (evt.act \in EndOfOpenLibrary /\ evt.cause # "clearHandle") =>
         ~TruthyV(StoredRow(idb))

\* C26: when the retry control of an error shown with a retry action is
\* activated, the banner is hidden and the retry action is invoked once
C26_RetryInvokesAction ==
  (evt.act = "handleRetry" \/ evt.cause = "handleRetry") =>
    ~ui.error /\ Len(evt.req) = 1

\* the file names whose extension is .epub in any letter case
EpubNamed(name) == name[Len(name)] \in {".epub", ".EPUB"}

\* one call of openLibrary on a host without picker and without a stored
\* handle, or one call of handleLibraryFiles
C25_Step ==
  /\ (~host.picker /\ ~TruthyV(StoredRow(idb))
      /\ evt'.req = <<"openLibrary">>) =>
       /\ evt'.act = "openLibrary_fileInput" /\ lib'.pc = "idle"
       /\ idb'.handles = idb.handles
       /\ evt'.errs = <<>> /\ ui'.error = ui.error /\ ~ui'.loading
       /\ grid' = grid
  /\ evt'.act = "handleLibraryFiles" =>
       /\ evt'.disp = SelectSeq(evt'.req, EpubNamed)
       /\ Len(evt'.disp) > 0 =>
            GridNames(grid') = evt'.disp /\ ui'.library

FetchFailures == {"noFile", "readFails", "parseFails", "coverFails"}

\* a fetch step for the entry of path f leaves every other grid item, and
\* the stored record of every other path, as they were, and shows no error
OthersUntouched(f) ==
  /\ Len(grid') = Len(grid)
  /\ \A i \in 1..Len(grid) : grid[i].path # f => grid'[i] = grid[i]
  /\ \A g \in Paths \ {f} :
       /\ (g \in DOMAIN booksStore') = (g \in DOMAIN booksStore)
       /\ g \in DOMAIN booksStore => booksStore'[g] = booksStore[g]
  /\ ui' = ui

\* the grid item of path f shows the file name and the placeholder image
ShowsFileName(g, f) ==
  \A i \in 1..Len(g) :
    g[i].path = f => g[i].title = g[i].name /\ g[i].img = "placeholder"

\* C27 as stated: whichever of getFile, arrayBuffer, the archive parse or
\* the cover lookup throws, the entry keeps the file name as title and the
\* placeholder image, no error is shown and the other entries are untouched
C27_FailedFetchKeepsName ==
  [][(evt'.act = "fetch" /\ evt'.file[2] \in FetchFailures) =>
       ShowsFileName(grid', evt'.file[1]) /\ OthersUntouched(evt'.file[1])
    ]_vars

\* C27: a failed fetch shows no error and leaves the other entries
\* untouched; the entry keeps the placeholder image, and keeps the file name
\* as title unless only the cover lookup failed, in which case it shows the
\* title of the parsed metadata
C27_FailedFetchIsLocal ==
  [][(evt'.act = "fetch" /\ evt'.file[2] \in FetchFailures) =>
       /\ OthersUntouched(evt'.file[1])
       /\ \A i \in 1..Len(grid') :
            grid'[i].path = evt'.file[1] =>
              /\ grid'[i].img = "placeholder"
              /\ grid'[i].title = IF evt'.file[2] = "coverFails"
                                  THEN TitleOf(evt'.file[1])
                                  ELSE grid'[i].name
    ]_vars

C27_Witness ==
  /\ evt.act = "fetch" /\ evt.file[2] = "coverFails"
  /\ Len(grid) = 2 /\ grid[1].title = "A" /\ grid[1].img = "placeholder"
  /\ grid[2].st = "done" /\ grid[2].img = "coverUrl"

\* C28: the grid is filled in batches of 6 in input order, and no item of
\* a later batch is created while the processing of an entry of an earlier
\* batch (its metadata fetch included) is unfinished
C28_BatchesInTurn ==
  /\ GridNames(grid) = SubSeq(GridNames(lib.entries), 1, Len(grid))
  /\ evt.act = "displayLibraryGrid_batch" => Len(evt.disp) <= batchSize
  /\ \A i, j \in 1..Len(grid) :
       BatchOf(i) < BatchOf(j) =>
         (grid[j].st = "pending" => grid[i].st # "pending")

(* ------------------- properties of cleanupDatabase -------------------- *)
\* C29: cleanupDatabase deletes a bookmark only if no book record with the
\* bookmark's bookPath is stored at that time, and when it completes
\* without concurrent writes every remaining bookmark has a book record,
\* whatever the outcome of its reads
C29_OnlyOrphansRemoved ==
  evt.act = "cleanupDatabase_remove" =>
    /\ cleanup.removed \cap DOMAIN booksStore = {}
    /\ cleanup.quiet =>
         \A id \in DOMAIN bookmarksStore.rows :
           bookmarksStore.rows[id].bookPath \in DOMAIN booksStore

(* ----------------- the error boundary of openLibrary ------------------ *)
\* the step shows exactly one error, 'Failed to open library: ...', and
\* leaves the library panel as it was
ShowsFailedToOpen ==
  /\ Len(evt'.errs) = 1
  /\ Len(evt'.errs[1]) > 0
  /\ evt'.errs[1][1] = "Failed to open library: "
  /\ ui'.error /\ ui'.errText = evt'.errs[1]
  /\ ui'.library = ui.library

\* a step of openLibrary in which the read of the stored handle or the
\* scan failed inside the function that performs it
AbsorbedFailure ==
  \/ evt'.req = <<"openLibrary">> /\ evt'.file[2] = "fails"
  \/ evt'.act = "openLibrary_display" /\ evt'.cause = "scan"

SettleOp(p) ==
  \/ readerOnError(p)
  \/ \E throws \in BOOLEAN : readerOnLoad(p, throws)
  \/ \E ok \in BOOLEAN, throws \in BOOLEAN : entryRead(p, ok, throws)
  \/ bookReadyRejects(p)
  \/ \E d \in Outcomes : bookReady(p, d)
  \/ \E g \in BOOLEAN : setupDone(p, g)

\* a pending promise of openLibrary settles, one way or the other
SettleLib ==
  \/ \E outcome \in {"picked", "AbortError", "NotAllowedError"} :
       showDirectoryPicker_settles(outcome)
  \/ \E ok \in BOOLEAN : storeLibraryHandle_settles(ok)
  \/ \E query \in {"granted", "prompt"}, request \in {"granted", "denied"} :
       permission_settles(query, request)
  \/ \E ok \in BOOLEAN : clearHandle_settles(ok)
  \/ \E failing \in Failing : openLibrary_rest(failing)

\* no archive has been parsed yet in this session
FirstLoad == nBooks = 0

\* open operations up to the first book that loads, one at a time, next to
\* openLibrary
NextLoad ==
  \/ FirstLoad
     /\ openBook(1, <<"book", ".epub">>, "application/epub+zip", 1)
  \/ FirstLoad /\ openBookFromLibraryItem(1, LibPath, "ok")
  \/ \E read \in {"ok", "fails"} : openLibrary_begin(read)
  \/ SettleOp(1)
  \/ SettleLib

\* every pending read, store and parser promise settles
SpecLoad ==
  /\ InitBook /\ [][NextLoad]_vars
  /\ WF_vars(SettleOp(1))
  /\ WF_vars(SettleLib)

AllFinished == lib.pc = "idle" /\ \A p \in Ops : ~Running(p)

\* C31: every open operation and every openLibrary that has shown the
\* loading indicator ends, on each of its paths, with the indicator hidden,
\* and the indicator is not shown once all started operations have finished
C31_LoadingEventuallyHidden ==
  /\ \A p \in Ops : Running(p) ~> (~Running(p) /\ ~ui.loading)
  /\ (lib.pc # "idle") ~> (lib.pc = "idle" /\ ~ui.loading)
  /\ [](AllFinished => ~ui.loading)

C31_Witness ==
  /\ AllFinished /\ ~ui.loading
  /\ evt.act = "open_failed" /\ grid # <<>> /\ ui.error

(* ------------------- properties of openBookFromEntry ------------------ *)
\* the step ends open operation evt'.op, which openBookFromEntry runs
EndsEntry(act) == evt'.act = act /\ ops[evt'.op].kind = "entry"

\* openBookFromEntry's own steps, apart from how a failed load is told
C32_Paths ==
  /\ evt'.act = "openEntry_start" => ~ui'.library /\ ui'.loading
  /\ EndsEntry("open_failed") =>
       /\ ui'.library /\ ~ui'.loading
       /\ Len(evt'.errs) = 1 /\ Len(evt'.errs[1]) > 0
       /\ evt'.errs[1][1] = "Error opening book: "
       /\ ui'.error /\ ui'.errText = evt'.errs[1]
       /\ rejections' = rejections
  /\ EndsEntry("open_done") =>
       /\ ui'.library = ui.library /\ ~ui'.loading
       /\ evt'.errs = <<>> /\ ui'.error = ui.error

\* C32: openBookFromEntry closes the library panel before loading; when
\* getFile, arrayBuffer or loadBook fails it reopens the panel, shows
\* exactly one error starting 'Error opening book: ', hides the loading
\* indicator and does not reject; when they succeed the panel stays as it
\* was and the call shows no error
C32_EntryFailureReopens == [][C32_Paths]_vars

C32_Witness ==
  /\ evt.act = "open_failed" /\ Len(evt.errs) = 1
  /\ evt.errs[1][1] = "Error opening book: "
  /\ ui.library /\ ~ui.loading /\ ui.error /\ ui.errText = evt.errs[1]
  /\ ui.errText[1] = "Error opening book: " /\ ui.retry = "openBookFromEntry"


(* ------------- the message and panel functions, called freely --------- *)
MaxTimers == 2
RetryActions == {"none", "openBook"}
Forces == {"open", "close", "toggle"}

\* one call of a function of the user interface; nothing else changes
uiCall(u, timers, act, arg) ==
  /\ ui' = u
  /\ errorTimers' = timers
  /\ evt' = [NoEvt EXCEPT !.act = act, !.cause = arg]
  /\ UNCHANGED <<sessionVars, navVars, ops, booksStore, libVars, scanVars,
                 dbVars, host, bookmarksStore, cleanup, deb>>

showLoading_call == uiCall(showLoading(ui), errorTimers, "showLoading", "none")

hideLoading_call == uiCall(hideLoading(ui), errorTimers, "hideLoading", "none")

\* showError (main.js 116-143): without a retry action it starts a timer
showError_call(retryAction) ==
  /\ retryAction = "none" => errorTimers < MaxTimers
  /\ uiCall(showError(ui, <<"message">>, retryAction),
            IF retryAction = "none" THEN errorTimers + 1 ELSE errorTimers,
            "showError", retryAction)

\* the close button of the error message
hideError_call == uiCall(hideError(ui), errorTimers, "hideError", "none")

\* handleRetry (main.js 234-239) with the action hideError has left
handleRetry_click ==
  /\ ui.error /\ ui.retry # "none"
  /\ uiCall(hideError(ui), errorTimers, "handleRetry", "none")

\* the callback showError passed to setTimeout (main.js 136-142)
errorTimer_fires ==
  /\ errorTimers > 0
  /\ uiCall(IF ui.error THEN hideError(ui) ELSE ui, errorTimers - 1,
            "errorTimer", "none")

showSuccess_call == uiCall(showSuccess(ui), errorTimers, "showSuccess", "none")

\* the close button of the success message, or showSuccess's 3 s timer
hideSuccess_call ==
  uiCall(hideSuccess(ui), errorTimers, "hideSuccess", "none")

toggleLibrary_call(force) ==
  uiCall(toggleLibrary(ui, force), errorTimers, "toggleLibrary", force)

toggleToc_call == uiCall(toggleToc(ui), errorTimers, "toggleToc", "none")

closeToc_call == uiCall(closeToc(ui), errorTimers, "closeToc", "none")

\* handleOverlayClick (main.js 224-229)
handleOverlayClick ==
  uiCall(hideSuccess(hideError(toggleLibrary(closeToc(ui), "close"))),
         errorTimers, "overlayClick", "none")

InitPanels ==
  /\ InitCommon
  /\ InitOther
  /\ disk = [f \in Paths |-> Absent]
  /\ ui = InitUI /\ booksStore = << >> /\ grid = << >>

NextPanels ==
  \/ showLoading_call
  \/ hideLoading_call
  \/ \E retryAction \in RetryActions : showError_call(retryAction)
  \/ hideError_call
  \/ handleRetry_click
  \/ errorTimer_fires
  \/ showSuccess_call
  \/ hideSuccess_call
  \/ \E force \in Forces : toggleLibrary_call(force)
  \/ toggleToc_call
  \/ closeToc_call
  \/ handleOverlayClick

SpecPanels == InitPanels /\ [][NextPanels]_vars

(* ----------------------- properties of toggleLibrary ------------------ *)
NoOtherOpen(u) == ~u.toc /\ ~MessageShown(u)
PanelState(u) == <<u.library, u.overlay>>

C33_Step ==
  (evt'.act = "toggleLibrary" /\ NoOtherOpen(ui)) =>
    /\ evt'.cause = "open" =>
         /\ PanelState(ui') = <<TRUE, TRUE>>
         /\ toggleLibrary(ui', "open") = ui'
    /\ evt'.cause = "close" =>
         /\ PanelState(ui') = <<FALSE, FALSE>>
         /\ toggleLibrary(ui', "close") = ui'
    /\ evt'.cause = "toggle" =>
         /\ ui'.library = ~ui.library
         /\ PanelState(toggleLibrary(ui', "toggle")) = PanelState(ui)

\* C33: with no other panel or message open, toggleLibrary(true) leaves the
\* panel and the overlay open and toggleLibrary(false) leaves both closed
\* whatever the state before, each doing nothing when repeated; without an
\* argument it flips the panel, and a second such call restores the panel
\* and overlay state
C33_ToggleLibraryForces == [][C33_Step]_vars


(* ------------------ properties of the error message ------------------- *)
RetryArmed(u) == u.error /\ u.retry # "none"
Dismissals == {"hideError", "handleRetry", "overlayClick"}

C34_Step ==
  \* the timer hides the error that was shown without a retry action
  /\ (evt'.act = "errorTimer" /\ ui.error /\ ~RetryArmed(ui)) => ~ui'.error
  \* an error with a retry action goes, or loses its action, only when the
  \* user dismisses it or retries, or when a later showError replaces it
  /\ (RetryArmed(ui) /\ ~(RetryArmed(ui') /\ ui'.errText = ui.errText)) =>
       evt'.act \in Dismissals \cup {"showError"}

\* C34: only an error shown without a retry action is hidden by the 10 s
\* timer; an error shown with a retry action stays visible with the action
\* armed until the user dismisses it or retries, whatever showError calls
\* came before or come after
C34_RetryErrorStays == [][C34_Step]_vars


(* ----------------------- debounce (main.js 190-200) ------------------- *)
MaxWait == 2
MaxTime == 4
MaxBurst == 3
DebounceArgs == {1, 2}

debStep(d, act) ==
  /\ deb' = d
  /\ evt' = [NoEvt EXCEPT !.act = act]
  /\ UNCHANGED <<appVars, scanVars, dbVars, host, bookmarksStore, cleanup,
                 errorTimers>>

\* a call that leaves a pending timer running instead of restarting it
rearm_keep(due, now, wait) == IF due # 0 THEN due ELSE now + wait

\* clearTimeout(timeout); timeout = setTimeout(later, wait)
rearm(due, now, wait) == now + wait

\* debounce(func, wait) returns executedFunction
debounce(wait) ==
  /\ deb.wait = 0
  /\ debStep([NoDebounce EXCEPT !.wait = wait], "debounce")

\* timers are punctual: a timer that is due runs before anything else does
TimerDue == deb.due # 0 /\ deb.due <= deb.now

executedFunction(a) ==
  /\ deb.wait # 0 /\ ~TimerDue /\ Len(deb.calls) < MaxBurst
  /\ debStep([deb EXCEPT !.due = rearm(deb.due, deb.now, deb.wait),
                         !.arg = a,
                         !.calls = Append(@, <<deb.now, a>>)],
             "executedFunction")

\* later: clearTimeout(timeout); func(...args)
later ==
  /\ TimerDue
  /\ debStep([deb EXCEPT !.due = 0,
                         !.fired = Append(@, <<deb.now, deb.arg>>)],
             "later")

\* a millisecond passes
tick ==
  /\ deb.wait # 0 /\ ~TimerDue /\ deb.now < MaxTime
  /\ debStep([deb EXCEPT !.now = @ + 1], "tick")

NextDebounce ==
  \/ \E wait \in 1..MaxWait : debounce(wait)
  \/ \E a \in DebounceArgs : executedFunction(a)
  \/ later
  \/ tick

SpecDebounce == InitPanels /\ [][NextDebounce]_vars

\* call i is the last of its burst: the next call is wait or more later
LastOfBurst(d, i) ==
  i = Len(d.calls) \/ d.calls[i + 1][1] - d.calls[i][1] >= d.wait

\* wait has passed since the last call of the burst that call i ends
BurstOver(d, i) ==
  \/ i < Len(d.calls)
  \/ d.calls[i][1] + d.wait < d.now
  \/ d.calls[i][1] + d.wait = d.now /\ d.due = 0

BurstEnds(d) ==
  {i \in 1..Len(d.calls) : LastOfBurst(d, i) /\ BurstOver(d, i)}

OncePerBurst(d) ==
  /\ Len(d.fired) = Cardinality(BurstEnds(d))
  /\ \A i \in BurstEnds(d) :
       \E k \in 1..Len(d.fired) :
         d.fired[k] = <<d.calls[i][1] + d.wait, d.calls[i][2]>>

\* C35: a call of the function debounce returned never invokes func itself;
\* for every burst of calls less than wait apart func is invoked exactly
\* once, wait after the last call of the burst, with that call's arguments
C35_DebounceOncePerBurst ==
  [][/\ evt'.act = "executedFunction" => deb'.fired = deb.fired
     /\ OncePerBurst(deb)']_vars

C35_Witness ==
  /\ Len(deb.calls) >= 2 /\ Len(deb.fired) = 1
  /\ deb.calls[1][1] < deb.calls[2][1]
  /\ deb.calls[2][1] - deb.calls[1][1] < deb.wait
  /\ deb.calls[1][2] # deb.calls[2][2]
  /\ deb.fired[1] = <<deb.calls[2][1] + deb.wait, deb.calls[2][2]>>


(* ====== scanDirectoryForEpubs call by call, on structures with a cycle ==
   main.test.spec.js 507-539.  The structure is a tree of directories
   1..MaxNodes plus at most one further directory entry, which may lead
   back to the directory itself or to one above it.  scanned.stack holds
   the activations of the function that have not returned yet.          *)
MaxNodes == 3
Nodes == 1..MaxNodes
\* more activations than there are directories: never reached by the code
MaxStack == MaxNodes + 2

NoLink == <<0, 0>>
Links == {NoLink} \cup (Nodes \X Nodes)

SubdirsOf(parent, link, d) ==
  SortedDirs({c \in Nodes : parent[c] = d})
  \o (IF link[1] = d THEN <<link[2]>> ELSE << >>)

Graphs ==
  {[dname |-> n,
    entries |-> [d \in Nodes |->
       [i \in 1..(IF d = Root THEN 1 ELSE 0) |->
          [kind |-> "file", name |-> EpubA, handle |-> <<d, i>>]]
       \o [i \in 1..Len(SubdirsOf(p, l, d)) |->
             [kind |-> "directory", name |-> n[SubdirsOf(p, l, d)[i]],
              handle |-> <<SubdirsOf(p, l, d)[i], 0>>]]]] :
     p \in {f \in [Nodes -> 0..MaxNodes] :
              /\ f[Root] = 0
              /\ \A d \in Nodes \ {Root} : f[d] \in {Root, d - 1} \ {0}},
     l \in Links,
     n \in {m \in [Nodes -> {RootName, <<"x">>} \cup
                            {UniqueName(d) : d \in Nodes}] :
              /\ m[Root] = RootName
              /\ \A d \in Nodes \ {Root} : m[d] \in {UniqueName(d), <<"x">>}}}

NoWalk == [done |-> FALSE, stack |-> << >>, files |-> << >>, cut |-> 0]

\* a scan that never looks at processedPaths
alreadyProcessed_never(processedPaths, dirPath) == FALSE

\* processedPaths.has(dirPath)
alreadyProcessed(processedPaths, dirPath) == dirPath \in processedPaths

\* scanDirectoryForEpubs(dirHandle) is called on the root handle
scanCall ==
  /\ ~scanned.done /\ scanned.stack = << >>
  /\ scanned' = [scanned EXCEPT
       !.stack = <<[dir |-> Root, i |-> 1, pp |-> {tree.dname[Root]}]>>]
  /\ evt' = [NoEvt EXCEPT !.act = "scanCall"]
  /\ UNCHANGED <<appVars, tree, dbVars, host, errorTimers, deb,
                 bookmarksStore, cleanup>>

\* the innermost activation handles its next entry, or returns
scanStep ==
  /\ scanned.stack # << >>
  /\ LET n == Len(scanned.stack)
         top == scanned.stack[n]
         es == entries(tree, top.dir)
         dirPath == tree.dname[top.dir]
     IN IF top.i > Len(es)
        THEN scanned' = [scanned EXCEPT !.stack = SubSeq(@, 1, n - 1),
                                        !.done = (n = 1)]
        ELSE
          LET e == es[top.i]
              next == [scanned.stack EXCEPT ![n].i = @ + 1]
          IN IF e.kind = "file"
             THEN scanned' = [scanned EXCEPT
                    !.stack = next,
                    !.files = IF endsWith(toLowerCase(e.name), ".epub")
                              THEN Append(@, dirPath \o <<"/">> \o e.name)
                              ELSE @]
             ELSE IF startsWith(e.name, ".")
                     \/ Cardinality(top.pp) >= DirBudget
             THEN scanned' = [scanned EXCEPT !.stack = next]
             ELSE IF alreadyProcessed(top.pp, tree.dname[e.handle[1]])
             THEN scanned' = [scanned EXCEPT !.stack = next, !.cut = 1]
             ELSE /\ n < MaxStack
                  /\ scanned' = [scanned EXCEPT !.stack =
                       Append(next,
                              [dir |-> e.handle[1], i |-> 1,
                               pp |-> top.pp \cup {tree.dname[e.handle[1]]}])]
  /\ evt' = [NoEvt EXCEPT !.act = "scanStep"]
  /\ UNCHANGED <<appVars, tree, dbVars, host, errorTimers, deb,
                 bookmarksStore, cleanup>>

InitWalk ==
  /\ InitCommon
  /\ disk = [f \in Paths |-> Absent]
  /\ ui = InitUI /\ booksStore = << >> /\ grid = << >>
  /\ tree \in Graphs
  /\ scanned = NoWalk
  /\ InitDBIdle
  /\ host = ModernHost /\ NoCleanup

NextWalk == scanCall \/ scanStep

\* an activation that can take a step does take it
SpecWalk == InitWalk /\ [][NextWalk]_vars /\ WF_vars(NextWalk)

\* C36: scanDirectoryForEpubs returns on every finite directory structure,
\* also when a directory is reachable from itself; its recursion is never
\* deeper than the number of directories
C36_ScanTerminates ==
  /\ <>scanned.done
  /\ [](Len(scanned.stack) <= MaxNodes)

\* a scan has returned after it met a directory it was already inside
C36_Witness ==
  /\ scanned.done /\ scanned.cut = 1 /\ scanned.files # << >>
  /\ \E d \in Nodes : \E i \in 1..Len(tree.entries[d]) :
       tree.entries[d][i].kind = "directory" /\ tree.entries[d][i].handle[1] = d


(* ------------- properties of openBookFromLibraryItem's record --------- *)
KeptFields == {"path", "title", "lastModified", "progress", "currentCfi"}
OpenSteps == {"openEntry_start", "load_begin", "load_rendered", "open_done",
              "open_failed"}

C37_Step ==
  evt'.act \in OpenSteps =>
    \A path \in DOMAIN booksStore :
      /\ path \in DOMAIN booksStore'
      /\ \A f \in KeptFields : booksStore'[path][f] = booksStore[path][f]
      /\ booksStore[path].lastModified = disk[path] =>
           booksStore'[path].lastModified = disk[path]

\* C37: opening a book from a library item changes only lastAccessed in the
\* book's record; title, lastModified, progress and currentCfi are as they
\* were, so an entry that was a cache hit for the unmodified file still is
C37_OpenTouchesLastAccessedOnly == [][C37_Step]_vars


(* ------------------------ properties of the overlay ------------------- *)
\* C38: whenever an error message, the library panel or the table of
\* contents is visible the overlay is open, after any sequence of calls of
\* the message and panel functions; an error shown by a failed open is
\* still covered after the loading indicator was hidden
C38_OverlayCovers == (ui.error \/ ui.library \/ ui.toc) => ui.overlay


(* ------------- navigation between one open and the next --------------- *)
NextTurn ==
  \/ OthersIdle(1) /\ openBook(1, <<"book", ".epub">>, "application/epub+zip", 1)
  \/ \E throws \in BOOLEAN : readerOnLoad(1, throws)
  \/ bookReadyRejects(1)
  \/ bookReady(1, "ok")
  \/ \E g \in BOOLEAN : setupDone(1, g)
  \/ \E dir \in {0 - 1, 1} : turnPage(dir)
  \/ \E m \in BOOLEAN : goToPage(JsNum(1), JsNum(1), m)
  \/ updateUIState
  \/ closeError

SpecTurn == InitBook /\ [][NextTurn]_vars

(* ------------------- properties of the navigation guard --------------- *)
\* the slot holds a live rendition and the book it was rendered from
RenditionOfBook == Live(rendition) /\ book # 0

\* C39: whenever the prev/next/page controls are enabled, and whenever
\* prevPage, nextPage or goToPage reaches the renderer, the rendition in
\* the slot is live and belongs to the book in the slot: after a load,
\* after a failed load that follows a successful one, and with no book
C39_NavigationGuarded ==
  [][/\ controls' => RenditionOfBook'
     /\ (evt'.act \in {"turnPage", "goToPage"} /\ evt'.disp # << >>)
          => RenditionOfBook]_vars


(* ================= importData (unnamed/part_002 642-701) ===============
   The backup holds books and settings (no bookmarks); the import runs
   alone, so one step takes it from its first line to its return.       *)
MaxImport == 2
NumV(n) == [type |-> "number", n |-> n]
\* !v
Not(v) == ~TruthyV(v) \/ v \in {Str(""), NumV(0)}

\* a record of the second file of the folder
R3 == [f \in {"path", "title"} |->
         CASE f = "path" -> "lib/b.epub" [] f = "title" -> "B"]

SettingKeys == {"theme", "fontSize"}
\* tables of settings rows with the given values, written at time stamp
SettingsTables(themes, sizes, stamp) ==
  {[k \in ks |-> [key |-> k, value |-> IF k = "theme" THEN t ELSE z,
                  timestamp |-> stamp]] :
     ks \in SUBSET SettingKeys, t \in themes, z \in sizes}

\* data.books and data.settings of a backup
Backups ==
  [books : {s \in UNION {[1..n -> {R2, R3}] : n \in 0..MaxImport} :
              \A i, j \in DOMAIN s : i # j => s[i] # s[j]},
   settings : SettingsTables({Str("light")}, {NumV(2)}, 0)]

\* what `await fn(arg)` yields for a getter of the module; read is "fails"
\* when the transaction cannot be run and the getter's catch block answers
awaited(fn, arg, d, books, read) ==
  IF read = "fails" THEN caught(fn, arg)
  ELSE settle(fn, arg, operation(fn, arg, d, books)).value

RECURSIVE importBooks(_, _, _, _, _, _)
\* the loop over data.books from book i on: the table and booksImported
importBooks(list, i, books, d, overwrite, read) ==
  IF i > Len(list) THEN [books |-> books, n |-> 0]
  ELSE LET found == awaited("getBookMetadata", [path |-> list[i]["path"]],
                            d, books, read)
           put == overwrite \/ Not(found)
           r == importBooks(list, i + 1,
                            IF put THEN storeBookMetadata(books, list[i])
                            ELSE books,
                            d, overwrite, read)
       IN [r EXCEPT !.n = @ + (IF put THEN 1 ELSE 0)]

\* the keys of data.settings that the loop over Object.entries stores
importedKeys(settings, d, books, overwrite, read) ==
  {k \in DOMAIN settings :
     overwrite \/ Not(awaited("getSetting", [key |-> k, defaultValue |-> NullV],
                              d, books, read))}

importData(data, overwrite, read) ==
  /\ idb.version = DB_VERSION
  /\ LET b == importBooks(data.books, 1, booksStore, idb, overwrite, read)
         ks == importedKeys(data.settings, idb, booksStore, overwrite, read)
     IN /\ booksStore' = b.books
        /\ idb' = [idb EXCEPT !.settings =
             [k \in DOMAIN @ \cup ks |->
                IF k \in ks
                THEN [key |-> k, value |-> data.settings[k].value,
                      timestamp |-> Now]
                ELSE @[k]]]
        /\ dbEvt' = [NoDbEvt EXCEPT
             !.act = "importData",
             !.tx = IF overwrite THEN "overwrite" ELSE "keep",
             !.row = [booksImported |-> b.n,
                      settingsImported |-> Cardinality(ks)]]
  /\ evt' = [NoEvt EXCEPT !.act = "indexedDB"]
  /\ UNCHANGED <<sessionVars, navVars, libVars, ui, ops, scanVars, calls,
                 openQueue, blocker, host, errorTimers, deb, bookmarksStore,
                 cleanup>>

InitImport ==
  /\ InitCommon
  /\ disk = [f \in Paths |-> Absent]
  /\ ui = InitUI /\ grid = << >>
  /\ tree = NoTree /\ scanned = NoScan
  /\ idb \in {[version |-> DB_VERSION, stores |-> StoreNames,
               handles |-> << >>, settings |-> s] :
                s \in SettingsTables({Str("dark"), Str("")}, {NumV(0)}, 0)}
  /\ booksStore \in {<< >>, storeBookMetadata(<< >>, R1)}
  /\ calls = [c \in Calls |-> IdleCall]
  /\ openQueue = << >>
  /\ dbEvt = NoDbEvt
  /\ blocker = FALSE
  /\ host = ModernHost /\ NoCleanup

NextImport ==
  \E data \in Backups, overwrite \in BOOLEAN, read \in {"ok", "fails"} :
    importData(data, overwrite, read)

SpecImport == InitImport /\ [][NextImport]_vars

(* ------------------------ properties of importData -------------------- *)
C40_Step ==
  (dbEvt'.act = "importData" /\ dbEvt'.tx = "keep") =>
    /\ \A path \in DOMAIN booksStore :
         path \in DOMAIN booksStore' /\ booksStore'[path] = booksStore[path]
    /\ \A key \in DOMAIN idb.settings :
         key \in DOMAIN idb'.settings
         /\ idb'.settings[key] = idb.settings[key]

\* C40: importData with overwrite false changes no book record and no
\* setting that the store already holds, whatever the stored value (also
\* 0 or the empty string); only absent paths and keys are added
C40_ImportKeepsExisting == [][C40_Step]_vars

============================================================================
